---- MODULE Spec2Model ----
(***************************************************************************)
(* Model of yaesutool's FT-60 and VX-2 drivers (src/ft-60.c, src/vx-2.c):  *)
(* the serial clone transfer (read_block, write_block, download, upload)   *)
(* and the frequency field codec (freq_to_hz, hz_to_freq).                 *)
(*                                                                         *)
(* Scaling.  The real images are MEMSZ = 0x6fc8 = 8 + 64*447 bytes (FT-60) *)
(* and MEMSZ = 32594 = 18 + 64*509 bytes (VX-2).  The model keeps every    *)
(* block length of the code (8, 10, 8, 64, 1, the limit 16) and scales     *)
(* only the number of full 64-byte chunks, NChunks.                        *)
(***************************************************************************)
EXTENDS Integers, Sequences, FiniteSets, TLC

VARIABLES
    radio,      \* which driver runs: "ft60" or "vx2"
    pc,         \* position of the program in download / upload
    radio_mem,  \* the image buffer, indices 0..MEMSZ (MEMSZ is the checksum byte)
    blk,        \* start argument of the current read_block/write_block call
    start,      \* read_block/write_block: offset of the current chunk
    datalen,    \* read_block/write_block: bytes of the call still to transfer
    need_ack,   \* read_block/write_block: acknowledge is exchanged in this call
    tx,         \* bytes the host has written to the link in this attempt
    io,         \* the last chunk transfer on the link and its outcome
    diag,       \* offset named by the fatal diagnostic, -1 when none was printed
    retries,    \* download attempts rejected for a bad checksum (saturating)
    cv          \* frequency codec: the conversion in progress

vars == <<radio, pc, radio_mem, blk, start, datalen, need_ack, tx, io, diag,
          retries, cv>>

----------------------------------------------------------------------------
(* Bounds of the model. *)

\* number of full 64-byte chunks of the image (447 on FT-60, 509 on VX-2)
NChunks == 2

\* the retry counter saturates here; the retry itself is never disabled
MaxRetries == 2

----------------------------------------------------------------------------
(* Program constants. *)

FT60 == "ft60"
VX2  == "vx2"
Radios == {FT60, VX2}

\* the acknowledge byte "\x06"
ACK == 6

\* the largest chunk read or written at once
CHUNK == 64

\* vx-2.c: need_ack = (datalen <= 16)
ACKLIMIT == 16

\* length of the first block: 8 bytes on FT-60, 10 bytes on VX-2
FirstLen(r) == IF r = FT60 THEN 8 ELSE 10

\* vx-2.c: length of the second block, at offset 10
VX2SecondLen == 8

\* size of the image without its checksum byte
MEMSZ(r) == IF r = FT60 THEN 8 + CHUNK * NChunks ELSE 18 + CHUNK * NChunks

Min(a, b) == IF a < b THEN a ELSE b

----------------------------------------------------------------------------
(* Helpers on the image buffer. *)

\* sum of mem[lo..hi-1]; the range is halved to keep the evaluation shallow
RECURSIVE SumRange(_, _, _)
SumRange(mem, lo, hi) ==
    IF hi <= lo THEN 0
    ELSE IF hi = lo + 1 THEN mem[lo]
    ELSE LET mid == (lo + hi) \div 2 IN SumRange(mem, lo, mid) + SumRange(mem, mid, hi)

\* sum of mem[0..n-1], as the loops "for (addr=0; addr<MEMSZ; addr++) sum += radio_mem[addr]"
SumBytes(mem, n) == SumRange(mem, 0, n)

\* the n bytes of mem from offset s, as a sequence
ChunkOf(mem, s, n) == [i \in 1..n |-> mem[s + i - 1]]

\* mem with the sequence data stored at offset s
Store(mem, s, data) ==
    [a \in DOMAIN mem |->
        IF a >= s /\ a < s + Len(data) THEN data[a - s + 1] ELSE mem[a]]

\* the first n elements of a sequence
Take(s, n) == SubSeq(s, 1, n)

\* download: "sum = sum & 0xff" after adding up radio_mem[0..MEMSZ-1]
DownloadSum_skiplast(r, mem) == SumBytes(mem, MEMSZ(r) - 1) % 256

DownloadSum(r, mem) == SumBytes(mem, MEMSZ(r)) % 256

\* upload: "radio_mem[MEMSZ] = sum" truncates the int sum to a byte
UploadSum_skipfirst(r, mem) == (SumBytes(mem, MEMSZ(r)) - mem[0]) % 256

UploadSum(r, mem) == SumBytes(mem, MEMSZ(r)) % 256

----------------------------------------------------------------------------
(* The calls download and upload make, and what read_block/write_block do. *)

\* FT-60 acknowledges every block; VX-2 decides once per call, from the
\* length the call was given
NeedAck_every(r, len) == TRUE

NeedAck(r, len) == r = FT60 \/ len <= ACKLIMIT

\* the call that follows the call with start argument s: its start argument
\* and length; more = FALSE after the last call
\*   FT-60: (0,8); for (addr=8; addr<MEMSZ; addr+=64) (addr,64); (MEMSZ,1)
\*   VX-2:  (0,10); (10,8); (18, MEMSZ-18+1)
BlockAfter(r, s) ==
    IF r = FT60
    THEN IF s = 0
         THEN IF 8 < MEMSZ(r)
              THEN [more |-> TRUE, start |-> 8, len |-> CHUNK]
              ELSE [more |-> TRUE, start |-> MEMSZ(r), len |-> 1]
         ELSE IF s < MEMSZ(r)
         THEN IF s + CHUNK < MEMSZ(r)
              THEN [more |-> TRUE, start |-> s + CHUNK, len |-> CHUNK]
              ELSE [more |-> TRUE, start |-> MEMSZ(r), len |-> 1]
         ELSE [more |-> FALSE, start |-> 0, len |-> 0]
    ELSE IF s = 0
         THEN [more |-> TRUE, start |-> 10, len |-> VX2SecondLen]
         ELSE IF s = 10
         THEN [more |-> TRUE, start |-> 18, len |-> MEMSZ(r) - 18 + 1]
         ELSE [more |-> FALSE, start |-> 0, len |-> 0]

\* upload computes the checksum right before this call:
\* FT-60 before write_block(MEMSZ, 1), VX-2 before write_block(18, ...)
SumBeforeCall(r, s) == IF r = FT60 THEN s = MEMSZ(r) ELSE s = 18

\* read_block: a short read is fatal unless the chunk is at offset 0
\* ("if (start == 0) return 0;")
ShortReadFatal_always(s) == TRUE

ShortReadFatal(s) == s # 0

\* the offset the fatal diagnostics of read_block print ("block 0x%04x", start)
DiagOffset_call(b, s) == b

DiagOffset(b, s) == s

\* no transfer yet in this attempt
NoIo ==
    [op |-> "none", start |-> 0, nbytes |-> 0, sent |-> <<>>, got |-> <<>>,
     ack_req |-> FALSE, ack_got |-> FALSE, ack |-> 0, ok |-> FALSE]

----------------------------------------------------------------------------
(* What the device and the line may do. *)

\* byte patterns of image contents: the image a run starts with (the zeroed
\* buffer or a loaded file), and the payload a device sends
InitPatterns == {0, 2}

RxPatterns == {1, 2}

Pat(p, a) == CASE p = 0 -> 0
               [] p = 1 -> 255
               [] OTHER -> (3 * a + 1) % 256

\* the buffer after read_image: ft-60.c reads MEMSZ bytes of the file and
\* leaves the checksum byte radio_mem[MEMSZ] of the zeroed buffer, vx-2.c
\* reads MEMSZ + 1 bytes
Image(r, p) ==
    [a \in 0..MEMSZ(r) |-> IF r = FT60 /\ a = MEMSZ(r) THEN 0 ELSE Pat(p, a)]

\* lengths of a short read of a chunk of n bytes
ShortLens(n) == {0, n - 1}

\* data the device may send for the chunk at offset s: payload in one of the
\* patterns; for the checksum byte the sum of what was received, or a wrong one
RxData(r, mem, s, n) ==
    IF s = MEMSZ(r)
    THEN LET g == SumBytes(mem, MEMSZ(r)) % 256 IN {<<g>>, <<(g + 1) % 256>>}
    ELSE {[i \in 1..n |-> Pat(p, s + i - 1)] : p \in RxPatterns}

\* the echo of a chunk: the same bytes, or the first byte damaged
Echoes(chunk) ==
    {chunk, [i \in 1..Len(chunk) |-> IF i = 1 THEN (chunk[1] + 1) % 256 ELSE chunk[i]]}

\* replies to an acknowledge request: the byte read (0x06, or another byte
\* such as 0x15), or nothing (got = FALSE)
AckReplies ==
    {[got |-> TRUE, val |-> ACK], [got |-> TRUE, val |-> 21], [got |-> FALSE, val |-> 0]}

----------------------------------------------------------------------------
(* Arithmetic of the C type double (IEEE 754 binary64, round to nearest,   *)
(* ties to even), as the drivers use it on frequencies.                    *)
(*                                                                         *)
(* A natural number of any size is the sequence of its digits in base      *)
(* 32768, lowest digit first, without a leading zero digit; 0 is <<>>.     *)
(* A double is the record [neg, m, e] of the value (-1)^neg * m * 2^e,     *)
(* m a natural number below 2^53 (or 2^53 itself).  The values met here    *)
(* are far from the subnormal range and from overflow.                     *)

\* 2^t for t in 0..15, by table
TwoTo(t) ==
    <<1, 2, 4, 8, 16, 32, 64, 128, 256, 512, 1024, 2048, 4096, 8192, 16384,
      32768>>[t + 1]

Dig(a, k) == IF 1 <= k /\ k <= Len(a) THEN a[k] ELSE 0

BigNorm(a) ==
    LET nz == {k \in 1..Len(a) : a[k] # 0}
    IN  IF nz = {} THEN <<>>
        ELSE SubSeq(a, 1, CHOOSE k \in nz : \A j \in nz : j <= k)

\* the natural number n, 0 <= n < 2^31
BigOfInt(n) ==
    BigNorm(<<n % 32768, (n \div 32768) % 32768, n \div 1073741824>>)

\* the int of a natural number below 2^31
BigToInt(a) == Dig(a, 1) + 32768 * Dig(a, 2) + 1073741824 * Dig(a, 3)

\* -1, 0, 1 as a < b, a = b, a > b
BigCmp(a, b) ==
    IF Len(a) # Len(b) THEN (IF Len(a) < Len(b) THEN -1 ELSE 1)
    ELSE LET d == {k \in 1..Len(a) : a[k] # b[k]}
         IN  IF d = {} THEN 0
             ELSE LET k == CHOOSE i \in d : \A j \in d : j <= i
                  IN  IF a[k] < b[k] THEN -1 ELSE 1

\* a + b: digit k takes a carry when a lower digit sum overflows and every
\* digit sum in between is full
BigAdd(a, b) ==
    LET n == IF Len(a) > Len(b) THEN Len(a) ELSE Len(b)
        s == [k \in 1..(n + 1) |-> Dig(a, k) + Dig(b, k)]
        c(k) == IF \E j \in 1..(k - 1) :
                       s[j] >= 32768 /\ \A i \in (j + 1)..(k - 1) : s[i] = 32767
                THEN 1 ELSE 0
    IN  BigNorm([k \in 1..(n + 1) |-> (s[k] + c(k)) % 32768])

\* a - b for a >= b: digit k lends when a lower digit difference is negative
\* and every digit difference in between is 0
BigSub(a, b) ==
    LET t == [k \in 1..Len(a) |-> a[k] - Dig(b, k)]
        c(k) == IF \E j \in 1..(k - 1) :
                       t[j] < 0 /\ \A i \in (j + 1)..(k - 1) : t[i] = 0
                THEN 1 ELSE 0
    IN  BigNorm([k \in 1..Len(a) |-> (t[k] - c(k)) % 32768])

\* a * d for one digit d: the low halves of the digit products plus their
\* high halves one place up
BigMulSmall(a, d) ==
    LET p == [k \in 1..Len(a) |-> a[k] * d]
    IN  BigAdd([k \in 1..Len(a) |-> p[k] % 32768],
               <<0>> \o [k \in 1..Len(a) |-> p[k] \div 32768])

RECURSIVE MulFrom(_, _, _)
MulFrom(a, b, j) ==
    IF j > Len(b) THEN <<>>
    ELSE LET rest == MulFrom(a, b, j + 1)
         IN  BigAdd(BigMulSmall(a, b[j]),
                    IF rest = <<>> THEN <<>> ELSE <<0>> \o rest)

BigMul(a, b) == MulFrom(a, b, 1)

\* a * 2^s and the integer part of a / 2^s
BigShl(a, s) ==
    IF a = <<>> THEN <<>>
    ELSE [k \in 1..(s \div 15) |-> 0] \o BigMulSmall(a, TwoTo(s % 15))

BigShr(a, s) ==
    LET w == s \div 15
        t == s % 15
    IN  BigNorm([k \in 1..(Len(a) - w) |->
                    (Dig(a, k + w) \div TwoTo(t))
                    + (Dig(a, k + w + 1) % TwoTo(t)) * TwoTo(15 - t)])

\* number of bits of a; bit i of a (bit 0 is the lowest); whether the s
\* lowest bits of a are all 0
BigBitLen(a) ==
    IF a = <<>> THEN 0
    ELSE 15 * (Len(a) - 1)
         + (CHOOSE n \in 1..15 : TwoTo(n - 1) <= a[Len(a)] /\ a[Len(a)] < TwoTo(n))

BigBit(a, i) == (Dig(a, (i \div 15) + 1) \div TwoTo(i % 15)) % 2

BigLowZero(a, s) ==
    /\ \A k \in 1..(s \div 15) : Dig(a, k) = 0
    /\ Dig(a, (s \div 15) + 1) % TwoTo(s % 15) = 0

\* the largest digit q of lo..hi with q * d <= r
RECURSIVE DigitOf(_, _, _, _)
DigitOf(r, d, lo, hi) ==
    IF lo >= hi THEN lo
    ELSE LET mid == (lo + hi + 1) \div 2
         IN  IF BigCmp(BigMulSmall(d, mid), r) <= 0 THEN DigitOf(r, d, mid, hi)
             ELSE DigitOf(r, d, lo, mid - 1)

\* the digit of the quotient of cur by d, cur < 32768 * d: the leading
\* digits of cur and of d bound it from both sides
QuotDigit(cur, d) ==
    LET ct == 32768 * Dig(cur, Len(d) + 1) + Dig(cur, Len(d))
        lo == ct \div (d[Len(d)] + 1)
        hi == ct \div d[Len(d)]
    IN  DigitOf(cur, d, lo, IF hi > 32767 THEN 32767 ELSE hi)

\* one step of the long division by d: up holds the quotient digits and the
\* remainder of the digits above, cur is that remainder with the next digit
\* ni below it, qd the quotient digit of cur
DivPut(up, cur, d, qd) ==
    [q |-> <<qd>> \o up.q, r |-> BigSub(cur, BigMulSmall(d, qd))]

DivDigit(up, cur, d) == DivPut(up, cur, d, QuotDigit(cur, d))

DivStep(ni, up, d) ==
    IF up.r = <<>> /\ ni = 0 THEN [q |-> <<0>> \o up.q, r |-> <<>>]
    ELSE DivDigit(up, BigNorm(<<ni>> \o up.r), d)

\* long division of the digits i and above of n by d: quotient digits and
\* remainder
RECURSIVE DivTo(_, _, _)
DivTo(n, d, i) ==
    IF i > Len(n) THEN [q |-> <<>>, r |-> <<>>]
    ELSE DivStep(n[i], DivTo(n, d, i + 1), d)

\* quotient and remainder of n by d, d > 0
DivResult(x) == [q |-> BigNorm(x.q), r |-> x.r]

BigDivMod(n, d) == DivResult(DivTo(n, d, 1))

DblZero == [neg |-> FALSE, m |-> <<>>, e |-> 0]

\* q, which is n without its s lowest bits, rounded by these bits to
\* nearest, ties to even
RoundUp(n, s, q) ==
    IF /\ BigBit(n, s - 1) = 1
       /\ ~BigLowZero(n, s - 1) \/ BigBit(q, 0) = 1
    THEN BigAdd(q, <<1>>) ELSE q

RoundOff(n, s) == RoundUp(n, s, BigShr(n, s))

\* the double nearest to (-1)^neg * n * 2^e for n of len bits, ties to the
\* even mantissa
RoundLen(neg, n, e, len) ==
    IF n = <<>> THEN DblZero
    ELSE IF len <= 53 THEN [neg |-> neg, m |-> n, e |-> e]
    ELSE [neg |-> neg, m |-> RoundOff(n, len - 53), e |-> e + len - 53]

Round53(neg, n, e) == RoundLen(neg, n, e, BigBitLen(n))

\* the double of an int
DblOfInt(n) == Round53(n < 0, BigOfInt(IF n < 0 THEN 0 - n ELSE n), 0)

DblNeg(x) == IF x.m = <<>> THEN x ELSE [x EXCEPT !.neg = ~x.neg]

\* -1, 0, 1 as x < 0, x = 0, x > 0
DblSign(x) == IF x.m = <<>> THEN 0 ELSE IF x.neg THEN -1 ELSE 1

\* the mantissas of x and y brought to the lower of the two exponents
Aligned(x, y) ==
    LET e == IF x.e < y.e THEN x.e ELSE y.e
    IN  [a |-> BigShl(x.m, x.e - e), b |-> BigShl(y.m, y.e - e), e |-> e]

\* -1, 0, 1 as x < y, x = y, x > y
AlignedCmp(al) == BigCmp(al.a, al.b)

MagCmp(x, y) == AlignedCmp(Aligned(x, y))

DblCmp(x, y) ==
    IF x.m = <<>> /\ y.m = <<>> THEN 0
    ELSE IF x.neg # y.neg /\ x.m # <<>> /\ y.m # <<>> THEN (IF x.neg THEN -1 ELSE 1)
    ELSE IF x.m = <<>> THEN (IF y.neg THEN 1 ELSE -1)
    ELSE IF y.m = <<>> THEN (IF x.neg THEN -1 ELSE 1)
    ELSE (IF x.neg THEN -1 ELSE 1) * MagCmp(x, y)

\* x + y, x - y, x * y, x / y of the C expressions
\* sign and magnitude of a * 2^e + b * 2^e with the signs of x and y
SignedSum(x, y, al) ==
    IF x.neg = y.neg THEN [neg |-> x.neg, n |-> BigAdd(al.a, al.b)]
    ELSE IF BigCmp(al.a, al.b) >= 0 THEN [neg |-> x.neg, n |-> BigSub(al.a, al.b)]
    ELSE [neg |-> y.neg, n |-> BigSub(al.b, al.a)]

RoundSum(sum, e) == Round53(sum.neg, sum.n, e)

AlignedSum(x, y, al) == RoundSum(SignedSum(x, y, al), al.e)

DblAdd(x, y) ==
    IF x.m = <<>> THEN y
    ELSE IF y.m = <<>> THEN x
    ELSE AlignedSum(x, y, Aligned(x, y))

DblSub(x, y) == DblAdd(x, DblNeg(y))

DblMul(x, y) == Round53(x.neg # y.neg, BigMul(x.m, y.m), x.e + y.e)

\* the shift t that makes the leading digit of the divisor full
DivisorShift(ylen) == (15 - (ylen % 15)) % 15

\* the shift s of the dividend of xlen bits that gives a quotient of 55
\* bits or more
DividendShift(xlen, ylen) ==
    IF 55 + ylen + DivisorShift(ylen) > xlen
    THEN 55 + ylen + DivisorShift(ylen) - xlen ELSE 0

\* the quotient d.q doubled, with a last bit that tells of a remainder
DivRound(neg, d, e) ==
    Round53(neg, BigAdd(BigMulSmall(d.q, 2), IF d.r = <<>> THEN <<>> ELSE <<1>>),
            e - 1)

DivShifted(x, y, s, t) ==
    DivRound(x.neg # y.neg, BigDivMod(BigShl(x.m, s), BigShl(y.m, t)),
             x.e - y.e - s + t)

DivLens(x, y, xlen, ylen) ==
    DivShifted(x, y, DividendShift(xlen, ylen), DivisorShift(ylen))

\* x / y: the quotient is taken with 55 bits or more and one bit more for a
\* remainder, the divisor with its leading digit full
DblDiv(x, y) ==
    IF x.m = <<>> THEN DblZero
    ELSE DivLens(x, y, BigBitLen(x.m), BigBitLen(y.m))

\* (int) x: the integer part, for a value inside the range of int
DblToInt(x) ==
    (IF x.neg THEN -1 ELSE 1)
    * BigToInt(IF x.e >= 0 THEN BigShl(x.m, x.e) ELSE BigShr(x.m, 0 - x.e))

\* the double that strtod, sscanf "%lf" and the compiler give for the
\* decimal text of n / 10^k, n an int: the nearest double
RECURSIVE Pow10(_)
Pow10(k) == IF k = 0 THEN 1 ELSE 10 * Pow10(k - 1)

DblOfDecimal(n, k) == DblDiv(DblOfInt(n), DblOfInt(Pow10(k)))

\* the constants of double the drivers compute with: 1000000.0, 1000.0,
\* 0.05, 0.5, 256 * 0.05, and the int bounds 400 and 999 as doubles.
\* 0.5 is 2^-1; 0.05 is stored as 0x1.999999999999ap-5, which is
\* DblOfDecimal(5, 2): the mantissa 0x1999999999999a in digits of 15 bits
D_1000000 == DblOfInt(1000000)

D_1000 == DblOfInt(1000)

D_0_05 == [neg |-> FALSE, m |-> <<6554, 13107, 26214, 204>>, e |-> -57]

D_0_5 == [neg |-> FALSE, m |-> <<1>>, e |-> -1]

D_256x0_05 == DblMul(DblOfInt(256), D_0_05)

D_400 == DblOfInt(400)

D_999 == DblOfInt(999)

----------------------------------------------------------------------------
(* Frequency field codec: freq_to_hz / hz_to_freq of both drivers.         *)
(* A 3-byte field is the sequence <<bcd[0], bcd[1], bcd[2]>>.  x >> 4 is   *)
(* x \div 16, x & 15 is x % 16, and a | of disjoint bit fields is a sum.   *)
(* hz is an int; every value below stays under 2^31, and hz >= 0.          *)

\* ft-60.c freq_to_hz: five decimal digits from 100 MHz down to 10 kHz, plus
\* 2500 Hz times the two high bits of bcd[0]
ft60_freq_to_hz(bcd) ==
    (bcd[1] % 16) * 100000000
    + ((bcd[2] \div 16) % 16) * 10000000
    + (bcd[2] % 16) * 1000000
    + ((bcd[3] \div 16) % 16) * 100000
    + (bcd[3] % 16) * 10000
    + (bcd[1] \div 64) * 2500

\* ft-60.c hz_to_freq
ft60_hz_to_freq_nostep(hz) ==
    << (hz \div 100000000) % 10,
       ((hz \div 10000000) % 10) * 16 + ((hz \div 1000000) % 10),
       ((hz \div 100000) % 10) * 16 + ((hz \div 10000) % 10) >>

ft60_hz_to_freq(hz) ==
    << ((hz \div 2500) % 4) * 64 + ((hz \div 100000000) % 10),
       ((hz \div 10000000) % 10) * 16 + ((hz \div 1000000) % 10),
       ((hz \div 100000) % 10) * 16 + ((hz \div 10000) % 10) >>

\* vx-2.c freq_to_hz: six digits from 100 MHz down to 1 kHz, plus 500 Hz
\* when the kHz digit is 2 or 7
vx2_freq_to_hz(bcd) ==
    LET a == bcd[1] \div 16
        b == bcd[1] % 16
        c == bcd[2] \div 16
        d == bcd[2] % 16
        e == bcd[3] \div 16
        f == bcd[3] % 16
        hz == (((((a * 10 + b) * 10 + c) * 10 + d) * 10 + e) * 10 + f) * 1000
    IN  IF f = 2 \/ f = 7 THEN hz + 500 ELSE hz

\* vx-2.c hz_to_freq: 0 Hz is stored as ff ff ff
vx2_hz_to_freq(hz) ==
    IF hz = 0 THEN <<255, 255, 255>>
    ELSE << ((hz \div 100000000) % 10) * 16 + ((hz \div 10000000) % 10),
            ((hz \div 1000000) % 10) * 16 + ((hz \div 100000) % 10),
            ((hz \div 10000) % 10) * 16 + ((hz \div 1000) % 10) >>

\* the codec of the driver that runs
freq_to_hz(r, bcd) == IF r = FT60 THEN ft60_freq_to_hz(bcd) ELSE vx2_freq_to_hz(bcd)

hz_to_freq(r, hz) == IF r = FT60 THEN ft60_hz_to_freq(hz) ELSE vx2_hz_to_freq(hz)

\* the double that sscanf "%lf" reads from the text of a frequency of hz Hz,
\* written in MHz with up to six decimals
TextMhz(hz) == DblOfDecimal(hz, 6)

\* ft-60.c is_valid_frequency on its int parameter
ft60_valid_mhz(mhz) == (mhz >= 108 /\ mhz <= 520) \/ (mhz >= 700 /\ mhz <= 999)

\* is_valid_frequency on the double of a text row.  ft-60.c takes an int
\* parameter (the fraction of the double is dropped); vx-2.c compares the
\* double with 0.5 and 999
is_valid_frequency(r, mhz) ==
    IF r = FT60
    THEN ft60_valid_mhz(DblToInt(mhz))
    ELSE DblCmp(mhz, D_0_5) >= 0 /\ DblCmp(mhz, D_999) <= 0

\* tuning steps of the radios in Hz (STEP_5 .. STEP_100, and STEP_9 on VX-2)
Steps(r) ==
    {5000, 10000, 12500, 15000, 20000, 25000, 50000, 100000}
        \cup (IF r = FT60 THEN {} ELSE {9000})

\* how many steps above a band edge the sampled frequencies go
MaxTune == 4

\* band edges the sampled frequencies start from
BandStarts(r) ==
    IF r = FT60
    THEN {108000000, 144000000, 519900000, 998900000}
    ELSE {522000, 1800000, 144000000, 998900000}

\* frequencies a text row can carry: on the tuning raster and accepted by
\* is_valid_frequency
HzInputs(r) ==
    {h \in {b + k * st : b \in BandStarts(r), st \in Steps(r), k \in 0..MaxTune} :
        is_valid_frequency(r, TextMhz(h))}

\* sampled 3-byte fields: digit and non-digit nibbles in every position
BcdInputs ==
    { <<16 * h0 + l0, 16 * h1 + l1, 16 * h2 + l2>> :
        h0 \in {0, 1, 4, 12}, l0 \in {0, 1, 9, 10},
        h1 \in {0, 4, 10}, l1 \in {0, 9, 15},
        h2 \in {0, 5, 15}, l2 \in {0, 2, 7, 9, 12} }

\* no conversion in progress
CvIdle == [mode |-> "none", step |-> 0, hz |-> 0, bcd |-> <<0, 0, 0>>,
           hz2 |-> 0, bcd2 |-> <<0, 0, 0>>]

\* the codec is exercised on a frequency in Hz (encoded, then decoded) or on
\* a 3-byte field (decoded, then encoded)
FreqInit ==
    /\ radio \in Radios
    /\ pc = "codec"
    /\ radio_mem = [a \in 0..MEMSZ(radio) |-> 0]
    /\ blk = 0
    /\ start = 0
    /\ datalen = 0
    /\ need_ack = FALSE
    /\ tx = <<>>
    /\ io = NoIo
    /\ diag = -1
    /\ retries = 0
    /\ \/ \E h \in HzInputs(radio) : cv = [CvIdle EXCEPT !.mode = "hz", !.hz = h]
       \/ \E b \in BcdInputs : cv = [CvIdle EXCEPT !.mode = "bcd", !.bcd = b]

\* hz_to_freq is applied
FreqEncode ==
    /\ pc = "codec"
    /\ \/ /\ cv.mode = "hz" /\ cv.step = 0
          /\ cv' = [cv EXCEPT !.bcd = hz_to_freq(radio, cv.hz), !.step = 1]
       \/ /\ cv.mode = "bcd" /\ cv.step = 1
          /\ cv' = [cv EXCEPT !.bcd2 = hz_to_freq(radio, cv.hz), !.step = 2]
    /\ UNCHANGED <<radio, pc, radio_mem, blk, start, datalen, need_ack, tx, io,
                   diag, retries>>

\* freq_to_hz is applied
FreqDecode ==
    /\ pc = "codec"
    /\ \/ /\ cv.mode = "hz" /\ cv.step = 1
          /\ cv' = [cv EXCEPT !.hz2 = freq_to_hz(radio, cv.bcd), !.step = 2]
       \/ /\ cv.mode = "bcd" /\ cv.step = 0
          /\ cv' = [cv EXCEPT !.hz = freq_to_hz(radio, cv.bcd), !.step = 1]
    /\ UNCHANGED <<radio, pc, radio_mem, blk, start, datalen, need_ack, tx, io,
                   diag, retries>>

FreqNext == FreqEncode \/ FreqDecode

FreqSpec == FreqInit /\ [][FreqNext]_vars

----------------------------------------------------------------------------
(* Clone transfer: initial state. *)

Init ==
    /\ radio \in Radios
    /\ pc = "idle"
    /\ \E p \in InitPatterns : radio_mem = Image(radio, p)
    /\ blk = 0
    /\ start = 0
    /\ datalen = 0
    /\ need_ack = FALSE
    /\ tx = <<>>
    /\ io = NoIo
    /\ diag = -1
    /\ retries = 0
    /\ cv = CvIdle

\* entry of a read_block/write_block call with arguments (s, len)
EnterCall(s, len) ==
    /\ blk' = s
    /\ start' = s
    /\ datalen' = len
    /\ need_ack' = NeedAck(radio, len)

\* after a chunk of n bytes went through: the next chunk of the same call,
\* or the caller's next call, or the end of the transfer (pc becomes last)
Advance_overlap(n, busy, last) ==
    IF n < datalen
    THEN /\ start' = start + n - 1
         /\ datalen' = datalen - n + 1
         /\ pc' = busy
         /\ UNCHANGED <<blk, need_ack>>
    ELSE LET nb == BlockAfter(radio, blk) IN
         IF nb.more
         THEN /\ EnterCall(nb.start, nb.len)
              /\ pc' = busy
         ELSE /\ pc' = last
              /\ UNCHANGED <<blk, start, datalen, need_ack>>

Advance(n, busy, last) ==
    IF n < datalen
    THEN /\ start' = start + n
         /\ datalen' = datalen - n
         /\ pc' = busy
         /\ UNCHANGED <<blk, need_ack>>
    ELSE LET nb == BlockAfter(radio, blk) IN
         IF nb.more
         THEN /\ EnterCall(nb.start, nb.len)
              /\ pc' = busy
         ELSE /\ pc' = last
              /\ UNCHANGED <<blk, start, datalen, need_ack>>

----------------------------------------------------------------------------
(* Download: ft60_download / vx2_download with read_block. *)

\* the download is started: "again:" and the first read_block(0, ...)
StartDownload ==
    /\ pc = "idle"
    /\ pc' = "await_first"
    /\ EnterCall(0, FirstLen(radio))
    /\ tx' = <<>>
    /\ io' = NoIo
    /\ UNCHANGED <<radio, radio_mem, diag, retries, cv>>

\* read_block(0, ...): short read of the first block, returns 0;
\* the caller's while loop calls it again
DlPoll ==
    /\ pc \in {"await_first", "receiving"}
    /\ ~ShortReadFatal(start)
    /\ LET n == Min(datalen, CHUNK) IN
       \E len \in ShortLens(n), data \in RxData(radio, radio_mem, start, n) :
          /\ radio_mem' = Store(radio_mem, start, Take(data, len))
          /\ io' = [op |-> "read", start |-> start, nbytes |-> n, sent |-> <<>>,
                    got |-> Take(data, len), ack_req |-> FALSE,
                    ack_got |-> FALSE, ack |-> 0, ok |-> FALSE]
    /\ EnterCall(0, FirstLen(radio))
    /\ UNCHANGED <<radio, pc, tx, diag, retries, cv>>

\* read_block: short read of a chunk at start != 0: diagnostic and exit(-1)
DlShortRead ==
    /\ pc \in {"await_first", "receiving"}
    /\ ShortReadFatal(start)
    /\ LET n == Min(datalen, CHUNK) IN
       \E len \in ShortLens(n), data \in RxData(radio, radio_mem, start, n) :
          /\ radio_mem' = Store(radio_mem, start, Take(data, len))
          /\ io' = [op |-> "read", start |-> start, nbytes |-> n, sent |-> <<>>,
                    got |-> Take(data, len), ack_req |-> FALSE,
                    ack_got |-> FALSE, ack |-> 0, ok |-> FALSE]
    /\ diag' = DiagOffset(blk, start)
    /\ pc' = "exit"
    /\ UNCHANGED <<radio, blk, start, datalen, need_ack, tx, retries, cv>>

\* read_block: the chunk arrived, 0x06 was sent, and the reply is missing
\* or is not 0x06: diagnostic and exit(-1)
DlAckFail ==
    /\ pc \in {"await_first", "receiving"}
    /\ need_ack
    /\ LET n == Min(datalen, CHUNK) IN
       \E data \in RxData(radio, radio_mem, start, n), rep \in AckReplies :
          /\ ~(rep.got /\ rep.val = ACK)
          /\ radio_mem' = Store(radio_mem, start, data)
          /\ io' = [op |-> "read", start |-> start, nbytes |-> n, sent |-> <<ACK>>,
                    got |-> data, ack_req |-> TRUE,
                    ack_got |-> rep.got, ack |-> rep.val, ok |-> FALSE]
    /\ tx' = Append(tx, ACK)
    /\ diag' = DiagOffset(blk, start)
    /\ pc' = "exit"
    /\ UNCHANGED <<radio, blk, start, datalen, need_ack, retries, cv>>

\* read_block: the chunk arrived and, when the call needs it, 0x06 was sent
\* and echoed; go on with the next chunk, the next call, or the verification
DlChunk ==
    /\ pc \in {"await_first", "receiving"}
    /\ LET n == Min(datalen, CHUNK) IN
       /\ \E data \in RxData(radio, radio_mem, start, n) :
             /\ radio_mem' = Store(radio_mem, start, data)
             /\ io' = [op |-> "read", start |-> start, nbytes |-> n,
                       sent |-> IF need_ack THEN <<ACK>> ELSE <<>>,
                       got |-> data, ack_req |-> need_ack,
                       ack_got |-> need_ack, ack |-> IF need_ack THEN ACK ELSE 0,
                       ok |-> TRUE]
       /\ Advance(n, "receiving", "verify")
    /\ tx' = IF need_ack THEN Append(tx, ACK) ELSE tx
    /\ UNCHANGED <<radio, diag, retries, cv>>

\* download: the sum of the image equals the checksum byte; download returns
DlVerifyOk_again ==
    /\ pc = "verify"
    /\ DownloadSum(radio, radio_mem) = radio_mem[MEMSZ(radio)]
    /\ pc' = "await_first"
    /\ EnterCall(0, FirstLen(radio))
    /\ tx' = <<>>
    /\ io' = NoIo
    /\ UNCHANGED <<radio, radio_mem, diag, retries, cv>>

DlVerifyOk ==
    /\ pc = "verify"
    /\ DownloadSum(radio, radio_mem) = radio_mem[MEMSZ(radio)]
    /\ pc' = "done"
    /\ UNCHANGED <<radio, radio_mem, blk, start, datalen, need_ack, tx, io,
                   diag, retries, cv>>

\* download: bad checksum; "goto again" and wait for the first block
DlVerifyBad_exit ==
    /\ pc = "verify"
    /\ DownloadSum(radio, radio_mem) # radio_mem[MEMSZ(radio)]
    /\ pc' = "exit"
    /\ retries' = Min(retries + 1, MaxRetries)
    /\ UNCHANGED <<radio, radio_mem, blk, start, datalen, need_ack, tx, io,
                   diag, cv>>

DlVerifyBad ==
    /\ pc = "verify"
    /\ DownloadSum(radio, radio_mem) # radio_mem[MEMSZ(radio)]
    /\ pc' = "await_first"
    /\ EnterCall(0, FirstLen(radio))
    /\ tx' = <<>>
    /\ io' = NoIo
    /\ retries' = Min(retries + 1, MaxRetries)
    /\ UNCHANGED <<radio, radio_mem, diag, cv>>

----------------------------------------------------------------------------
(* Upload: ft60_upload / vx2_upload with write_block. *)

\* the upload is started: the procedure is printed, then "again:" prompts
StartUpload ==
    /\ pc = "idle"
    /\ pc' = "prompt"
    /\ io' = NoIo
    /\ UNCHANGED <<radio, radio_mem, blk, start, datalen, need_ack, tx, diag,
                   retries, cv>>

\* "again:": the operator presses <Enter> (fgets returns, its result is
\* ignored) and the first write_block(0, ...) is entered
UlEnter_resume ==
    /\ pc = "prompt"
    /\ pc' = "sending"
    /\ IF io.op = "write"
       THEN UNCHANGED <<blk, start, datalen, need_ack, tx>>
       ELSE EnterCall(0, FirstLen(radio)) /\ tx' = <<>>
    /\ io' = NoIo
    /\ UNCHANGED <<radio, radio_mem, diag, retries, cv>>

UlEnter ==
    /\ pc = "prompt"
    /\ pc' = "sending"
    /\ EnterCall(0, FirstLen(radio))
    /\ tx' = <<>>
    /\ io' = NoIo
    /\ UNCHANGED <<radio, radio_mem, diag, retries, cv>>

\* write_block accepts the echo of a chunk when its length is the chunk's
EchoAccepted_same(chunk, echo) == echo = chunk

EchoAccepted(chunk, echo) == Len(echo) = Len(chunk)

\* write_block: the chunk was written and the echo is not accepted:
\* return 0, the caller goes to "error:" and back to the prompt
UlEchoFail ==
    /\ pc = "sending"
    /\ LET n == Min(datalen, CHUNK)
           chunk == ChunkOf(radio_mem, start, n) IN
       /\ tx' = tx \o chunk
       /\ \E e \in Echoes(chunk), len \in ShortLens(n) \cup {n} :
             /\ ~EchoAccepted(chunk, Take(e, len))
             /\ io' = [op |-> "write", start |-> start, nbytes |-> n,
                       sent |-> chunk, got |-> Take(e, len), ack_req |-> FALSE,
                       ack_got |-> FALSE, ack |-> 0, ok |-> FALSE]
    /\ pc' = "prompt"
    /\ UNCHANGED <<radio, radio_mem, blk, start, datalen, need_ack, diag,
                   retries, cv>>

\* write_block: the echo was accepted, the acknowledge is missing or is not
\* 0x06: return 0, the caller goes to "error:" and back to the prompt
UlAckFail ==
    /\ pc = "sending"
    /\ need_ack
    /\ LET n == Min(datalen, CHUNK)
           chunk == ChunkOf(radio_mem, start, n) IN
       /\ tx' = tx \o chunk
       /\ \E e \in Echoes(chunk), rep \in AckReplies :
             /\ EchoAccepted(chunk, e)
             /\ ~(rep.got /\ rep.val = ACK)
             /\ io' = [op |-> "write", start |-> start, nbytes |-> n,
                       sent |-> chunk, got |-> e, ack_req |-> TRUE,
                       ack_got |-> rep.got, ack |-> rep.val, ok |-> FALSE]
    /\ pc' = "prompt"
    /\ UNCHANGED <<radio, radio_mem, blk, start, datalen, need_ack, diag,
                   retries, cv>>

\* write_block: the chunk was written, echoed and, when the call needs it,
\* acknowledged; go on with the next chunk or the next call.  The checksum
\* is stored into radio_mem[MEMSZ] before the call that carries it.
UlChunk ==
    /\ pc = "sending"
    /\ LET n == Min(datalen, CHUNK)
           chunk == ChunkOf(radio_mem, start, n)
           nb == BlockAfter(radio, blk) IN
       /\ tx' = tx \o chunk
       /\ \E e \in Echoes(chunk) :
             /\ EchoAccepted(chunk, e)
             /\ io' = [op |-> "write", start |-> start, nbytes |-> n,
                       sent |-> chunk, got |-> e, ack_req |-> need_ack,
                       ack_got |-> need_ack, ack |-> IF need_ack THEN ACK ELSE 0,
                       ok |-> TRUE]
       /\ Advance(n, "sending", "uploaded")
       /\ radio_mem' =
             IF n >= datalen /\ nb.more /\ SumBeforeCall(radio, nb.start)
             THEN [radio_mem EXCEPT ![MEMSZ(radio)] = UploadSum(radio, radio_mem)]
             ELSE radio_mem
    /\ UNCHANGED <<radio, diag, retries, cv>>

Next ==
    \/ StartDownload
    \/ DlPoll
    \/ DlShortRead
    \/ DlAckFail
    \/ DlChunk
    \/ DlVerifyOk
    \/ DlVerifyBad
    \/ StartUpload
    \/ UlEnter
    \/ UlEchoFail
    \/ UlAckFail
    \/ UlChunk

Spec == Init /\ [][Next]_vars

----------------------------------------------------------------------------
(* Properties of the clone transfer, checked under Spec. *)

\* C1: whenever download returns, the trailing byte radio_mem[MEMSZ] equals
\* the sum of radio_mem[0..MEMSZ-1] modulo 256
C1_DownloadChecksum ==
    pc = "done" =>
        radio_mem[MEMSZ(radio)] = SumRange(radio_mem, 0, MEMSZ(radio)) % 256

\* a download has returned with an image whose byte sum wraps around 256
C1_Witness ==
    /\ pc = "done"
    /\ SumRange(radio_mem, 0, MEMSZ(radio)) > 255

\* C2: a checksum mismatch in download neither stops the process nor completes
\* the download: the next step waits again for the first block at offset 0,
\* whatever the number of earlier retries, and that step is always possible
C2_RetryRestarts ==
    /\ [](pc = "verify"
            /\ SumRange(radio_mem, 0, MEMSZ(radio)) % 256 # radio_mem[MEMSZ(radio)]
          => ENABLED DlVerifyBad)
    /\ [][(pc = "verify"
            /\ SumRange(radio_mem, 0, MEMSZ(radio)) % 256 # radio_mem[MEMSZ(radio)])
          => (/\ pc' = "await_first"
              /\ blk' = 0 /\ start' = 0 /\ datalen' = FirstLen(radio)
              /\ tx' = <<>>
              /\ diag' = -1
              /\ retries' = Min(retries + 1, MaxRetries))]_vars

\* after MaxRetries rejected attempts the download waits for the first block
C2_Witness ==
    /\ retries = MaxRetries
    /\ pc = "await_first"
    /\ start = 0
    /\ io.op = "none"

\* C3: a short read of the first block (offset 0; 8 bytes on FT-60, 10 on
\* VX-2) is no error: nothing has been sent on the link, the process has not
\* exited, and the full first block is polled for again
C3_FirstBlockPoll ==
    (io.op = "read" /\ io.start = 0 /\ Len(io.got) < io.nbytes) =>
        /\ io.nbytes = FirstLen(radio)
        /\ io.sent = <<>>
        /\ tx = <<>>
        /\ pc = "await_first"
        /\ diag = -1
        /\ start = 0 /\ datalen = FirstLen(radio)
        /\ ENABLED DlPoll

\* the first block came in one byte short and the download still polls
C3_Witness ==
    /\ io.op = "read" /\ io.start = 0
    /\ Len(io.got) = FirstLen(radio) - 1
    /\ pc = "await_first"

\* C4: in download a short read of a chunk at an offset other than 0, a
\* missing acknowledge echo, or an echo other than 0x06 stops the process,
\* and the diagnostic names the offset of the failing chunk
C4_FatalAfterFirst ==
    /\ (io.op = "read" /\ io.start # 0 /\ Len(io.got) < io.nbytes)
          => (pc = "exit" /\ diag = io.start)
    /\ (io.op = "read" /\ io.ack_req /\ ~(io.ack_got /\ io.ack = ACK))
          => (pc = "exit" /\ diag = io.start)
    /\ pc = "exit" => ~ENABLED Next

\* VX-2 stopped on a short read of the second chunk of its third block: the
\* chunk's offset is not the block's
C4_Witness ==
    /\ radio = VX2
    /\ pc = "exit"
    /\ io.op = "read" /\ Len(io.got) < io.nbytes
    /\ blk = 18
    /\ diag = 18 + CHUNK

\* C5 as stated: on VX-2, in both directions, a chunk is acknowledged exactly
\* when it is shorter than 64 bytes; on FT-60 every block is acknowledged
C5_AckShortChunks ==
    (io.op \in {"read", "write"} /\ Len(io.got) = io.nbytes) =>
        IF radio = FT60 THEN io.ack_req ELSE (io.ack_req <=> io.nbytes < CHUNK)

\* C5 amended: on VX-2, in both directions, a chunk is acknowledged exactly
\* when it belongs to one of the two short leading blocks (offsets 0 and 10);
\* no chunk of the third block is, neither a full one nor the final 1-byte
\* chunk with the checksum; on FT-60 every block is acknowledged.  In
\* download the acknowledged chunks are those after which the host sent 0x06.
C5_AckPerCall ==
    (io.op \in {"read", "write"} /\ Len(io.got) = io.nbytes) =>
        /\ IF radio = FT60 THEN io.ack_req ELSE (io.ack_req <=> io.start \in {0, 10})
        /\ (radio = VX2 /\ io.start = MEMSZ(radio)) => ~io.ack_req
        /\ io.op = "read" => (io.ack_req <=> io.sent = <<ACK>>)

\* VX-2 has transferred the final 1-byte chunk with no acknowledge
C5_Witness ==
    /\ radio = VX2
    /\ io.ok
    /\ io.start = MEMSZ(radio) /\ io.nbytes = 1
    /\ ~io.ack_req

\* C6: in upload a failed block write at any offset does not stop the
\* process: the program is at the operator prompt, the only step from the
\* prompt enters the first block at offset 0, and the first chunk written
\* after it is the one at offset 0
C6_UploadRecovery ==
    /\ []((io.op = "write" /\ ~io.ok) => (pc = "prompt" /\ diag = -1))
    /\ [][pc = "prompt" =>
            (/\ pc' = "sending"
             /\ blk' = 0 /\ start' = 0 /\ datalen' = FirstLen(radio)
             /\ tx' = <<>>)]_vars
    /\ [][(pc = "sending" /\ io.op = "none") =>
            (io'.op = "write" /\ io'.start = 0 /\ io'.nbytes = FirstLen(radio))]_vars

\* the write of the final checksum block failed and the upload is at the prompt
C6_Witness ==
    /\ io.op = "write" /\ ~io.ok
    /\ io.start = MEMSZ(radio)
    /\ pc = "prompt"

\* C7 as stated: a chunk is delivered only if the echo has the bytes sent
C7_EchoSameBytes ==
    (io.op = "write" /\ io.ok) => io.got = io.sent

\* C7 amended: a written chunk is delivered exactly when the echo has as many
\* bytes as were sent and, where the block needs one, the acknowledge 0x06
\* follows; the echoed values are not compared.  A chunk not delivered sends
\* the upload to recovery.
C7_EchoLength ==
    io.op = "write" =>
        /\ io.ok <=> (/\ Len(io.got) = Len(io.sent)
                      /\ io.ack_req => (io.ack_got /\ io.ack = ACK))
        /\ ~io.ok => pc = "prompt"

\* a chunk was delivered although the echo differs from what was sent
C7_Witness ==
    /\ io.op = "write" /\ io.ok
    /\ Len(io.got) = Len(io.sent)
    /\ io.got # io.sent

\* C8: when an upload attempt completes, the bytes sent in it are the MEMSZ
\* payload bytes of the image followed by one last byte, their sum modulo 256
C8_UploadChecksum ==
    pc = "uploaded" =>
        /\ Len(tx) = MEMSZ(radio) + 1
        /\ \A a \in 0..(MEMSZ(radio) - 1) : tx[a + 1] = radio_mem[a]
        /\ tx[MEMSZ(radio) + 1] = SumRange(tx, 1, MEMSZ(radio) + 1) % 256

\* an upload completed for an image whose byte sum wraps around 256
C8_Witness ==
    /\ pc = "uploaded"
    /\ SumRange(tx, 1, MEMSZ(radio) + 1) > 255

----------------------------------------------------------------------------
(* Properties of the frequency codec, checked under FreqSpec. *)

\* C9: for every frequency a text row can carry, freq_to_hz(hz_to_freq(hz))
\* is hz
C9_HzRoundTrip ==
    (cv.mode = "hz" /\ cv.step = 2) => cv.hz2 = cv.hz

\* a 3-byte field the codec reproduces: every nibble the decoder reads is a
\* decimal digit; on FT-60 bits 5..4 of the first byte are clear; on VX-2 the
\* field is not 00 00 00
WellFormedBcd(r, bcd) ==
    /\ bcd[1] % 16 <= 9
    /\ bcd[2] \div 16 <= 9 /\ bcd[2] % 16 <= 9
    /\ bcd[3] \div 16 <= 9 /\ bcd[3] % 16 <= 9
    /\ IF r = FT60
       THEN (bcd[1] \div 16) % 4 = 0
       ELSE bcd[1] \div 16 <= 9 /\ bcd # <<0, 0, 0>>

\* C10 as stated: hz_to_freq(freq_to_hz(b)) is b for every 3-byte field b
C10_BcdRoundTrip ==
    (cv.mode = "bcd" /\ cv.step = 2) => cv.bcd2 = cv.bcd

\* C10 amended: hz_to_freq(freq_to_hz(b)) is b exactly for the well-formed
\* fields b, and differs from b for every other field
C10_BcdRoundTripWellFormed ==
    (cv.mode = "bcd" /\ cv.step = 2) =>
        (cv.bcd2 = cv.bcd <=> WellFormedBcd(radio, cv.bcd))

\* an FT-60 field with a 2.5 kHz multiple in its high bits came back
C10_Witness ==
    /\ radio = FT60
    /\ cv.mode = "bcd" /\ cv.step = 2
    /\ cv.bcd[1] \div 64 = 1
    /\ WellFormedBcd(radio, cv.bcd)
    /\ cv.bcd2 = cv.bcd

----------------------------------------------------------------------------
(* Codecs and text tables.  The specifications below exercise the codecs   *)
(* and the table import of the drivers; the serial link is not used, and   *)
(* its variables keep the values of TransferIdle.                          *)

\* the variables of read_block / write_block / download / upload
transfer == <<blk, start, datalen, need_ack, tx, io, diag, retries>>

\* no clone transfer is in progress
TransferIdle ==
    /\ blk = 0
    /\ start = 0
    /\ datalen = 0
    /\ need_ack = FALSE
    /\ tx = <<>>
    /\ io = NoIo
    /\ diag = -1
    /\ retries = 0
----------------------------------------------------------------------------
(* Squelch codec: encode_tone, encode_dcs, encode_squelch and the squelch  *)
(* switch of decode_channel.                                               *)
(* A squelch text is [k, v]: k = "off" for "-", "tone" for a number nnn.n, *)
(* "dcs" for Dnnn, "rev" for -nnn.n; v is the number (tones in tenths of   *)
(* Hz, as encode_tone computes it from the text).  An index is 0-based as  *)
(* in C; -1 is the failure value.                                          *)

\* the table of CTCSS tones in tenths of Hz (util.c), indices 0..49
CTCSS_TONES ==
    <<  670,  693,  719,  744,  770,  797,  825,  854,  885,  915,
        948,  974, 1000, 1035, 1072, 1109, 1148, 1188, 1230, 1273,
       1318, 1365, 1413, 1462, 1514, 1567, 1598, 1622, 1655, 1679,
       1713, 1738, 1773, 1799, 1835, 1862, 1899, 1928, 1966, 1995,
       2035, 2065, 2107, 2181, 2257, 2291, 2336, 2418, 2503, 2541 >>

\* the table of DCS codes (util.c), indices 0..103
DCS_CODES ==
    <<  23,  25,  26,  31,  32,  36,  43,  47,  51,  53,
        54,  65,  71,  72,  73,  74, 114, 115, 116, 122,
       125, 131, 132, 134, 143, 145, 152, 155, 156, 162,
       165, 172, 174, 205, 212, 223, 225, 226, 243, 244,
       245, 246, 251, 252, 255, 261, 263, 265, 266, 271,
       274, 306, 311, 315, 325, 331, 332, 343, 346, 351,
       356, 364, 365, 371, 411, 412, 413, 423, 431, 432,
       445, 446, 452, 454, 455, 462, 464, 465, 466, 503,
       506, 516, 523, 526, 532, 546, 565, 606, 612, 624,
       627, 631, 632, 654, 662, 664, 703, 712, 723, 731,
       732, 734, 743, 754 >>

NCTCSS == Len(CTCSS_TONES)

NDCS == Len(DCS_CODES)

\* index of the tone a record holds when no tone is selected
TONE_DEFAULT == 12

\* squelch modes of a record; the first three are common to both drivers
T_OFF == 0
T_TONE == 1
T_TSQL == 2
\* ft-60.c
T_TSQL_REV == 3
T_DTCS == 4
T_D == 5
T_T_DCS == 6
T_D_TSQL == 7
\* vx-2.c
VX2_T_DTCS == 3

\* the loop "for (i=0; i<N; i++) if (table[i] == val) return i; return -1"
Lookup(table, val) ==
    IF \E i \in 1..Len(table) : table[i] = val
    THEN (CHOOSE i \in 1..Len(table) :
              table[i] = val /\ \A j \in 1..(i - 1) : table[j] # val) - 1
    ELSE -1

encode_tone_value(v) == v

\* encode_tone on the text of a tone of v tenths of Hz: values under 0x258
\* are refused before the table is searched
encode_tone(v) == IF v < 600 THEN -1 ELSE Lookup(CTCSS_TONES, v)

\* encode_dcs on the text "Dv"
encode_dcs(v) == Lookup(DCS_CODES, v)

\* ft-60.c encode_squelch: [tmode, tone, dtcs] of a pair of squelch texts
ft60_encode_squelch_norev(rxs, txs) ==
    LET rx_dcs == IF rxs.k = "dcs" THEN encode_dcs(rxs.v) ELSE -1
        rx_tone == IF rxs.k \in {"tone", "rev"} THEN encode_tone(rxs.v) ELSE -1
        rx_rev == FALSE
        tx_dcs == IF txs.k = "dcs" THEN encode_dcs(txs.v) ELSE -1
        tx_tone == IF txs.k = "tone" THEN encode_tone(txs.v) ELSE -1
    IN  IF rx_dcs >= 0
        THEN IF tx_tone >= 0
             THEN [tmode |-> T_T_DCS, tone |-> tx_tone, dtcs |-> rx_dcs]
             ELSE [tmode |-> T_DTCS, tone |-> TONE_DEFAULT, dtcs |-> rx_dcs]
        ELSE IF tx_dcs >= 0
        THEN IF rx_tone >= 0
             THEN [tmode |-> T_D_TSQL, tone |-> rx_tone, dtcs |-> tx_dcs]
             ELSE [tmode |-> T_D, tone |-> TONE_DEFAULT, dtcs |-> tx_dcs]
        ELSE IF tx_tone >= 0
        THEN [tmode |-> IF rx_tone < 0 THEN T_TONE
                        ELSE IF rx_rev THEN T_TSQL_REV ELSE T_TSQL,
              tone |-> tx_tone, dtcs |-> 0]
        ELSE [tmode |-> T_OFF, tone |-> TONE_DEFAULT, dtcs |-> 0]

ft60_encode_squelch(rxs, txs) ==
    LET rx_dcs == IF rxs.k = "dcs" THEN encode_dcs(rxs.v) ELSE -1
        rx_tone == IF rxs.k \in {"tone", "rev"} THEN encode_tone(rxs.v) ELSE -1
        rx_rev == rxs.k = "rev"
        tx_dcs == IF txs.k = "dcs" THEN encode_dcs(txs.v) ELSE -1
        tx_tone == IF txs.k = "tone" THEN encode_tone(txs.v) ELSE -1
    IN  IF rx_dcs >= 0
        THEN IF tx_tone >= 0
             THEN [tmode |-> T_T_DCS, tone |-> tx_tone, dtcs |-> rx_dcs]
             ELSE [tmode |-> T_DTCS, tone |-> TONE_DEFAULT, dtcs |-> rx_dcs]
        ELSE IF tx_dcs >= 0
        THEN IF rx_tone >= 0
             THEN [tmode |-> T_D_TSQL, tone |-> rx_tone, dtcs |-> tx_dcs]
             ELSE [tmode |-> T_D, tone |-> TONE_DEFAULT, dtcs |-> tx_dcs]
        ELSE IF tx_tone >= 0
        THEN [tmode |-> IF rx_tone < 0 THEN T_TONE
                        ELSE IF rx_rev THEN T_TSQL_REV ELSE T_TSQL,
              tone |-> tx_tone, dtcs |-> 0]
        ELSE [tmode |-> T_OFF, tone |-> TONE_DEFAULT, dtcs |-> 0]

\* vx-2.c encode_squelch: the receive text counts only when it is a tone
vx2_encode_squelch(rxs, txs) ==
    LET tx_dcs == IF txs.k = "dcs" THEN encode_dcs(txs.v) ELSE -1
        tx_tone == IF txs.k = "tone" THEN encode_tone(txs.v) ELSE -1
        rx_tone == IF rxs.k = "tone" THEN encode_tone(rxs.v) ELSE -1
    IN  IF tx_dcs >= 0
        THEN [tmode |-> VX2_T_DTCS, tone |-> TONE_DEFAULT, dtcs |-> tx_dcs]
        ELSE IF tx_tone >= 0
        THEN [tmode |-> IF rx_tone < 0 THEN T_TONE ELSE T_TSQL,
              tone |-> tx_tone, dtcs |-> 0]
        ELSE [tmode |-> T_OFF, tone |-> TONE_DEFAULT, dtcs |-> 0]

encode_squelch(r, rxs, txs) ==
    IF r = FT60 THEN ft60_encode_squelch(rxs, txs) ELSE vx2_encode_squelch(rxs, txs)

\* no squelch selected: what decode_channel starts from
NoSquelch == [rx_ctcs |-> 0, tx_ctcs |-> 0, rx_dcs |-> 0, tx_dcs |-> 0]

\* CTCSS_TONES[i] / DCS_CODES[i] as decode_channel reads them: an index past
\* the end of the table reads whatever int lies behind it, here junk
TableAt(table, i, junk) == IF i < Len(table) THEN table[i + 1] ELSE junk

\* the values of the C type int: a read behind a table yields any of them
IntValues == (0 - 2147483647 - 1)..2147483647

\* the values of IntValues the specifications try: a negative one, 0, a
\* code of DCS_CODES, a tone of CTCSS_TONES and a large one
JunkValues == {-32969, 0, 23, 670, 990059265}

\* the outcomes of the undefined reads of one decode_channel call: the cell
\* behind CTCSS_TONES and the cell behind DCS_CODES (two different cells)
Junk == [tone : JunkValues, code : JunkValues]

NoJunk == [tone |-> 0, code |-> 0]

\* ft-60.c decode_channel, "Decode squelch modes"
ft60_decode_squelch(tmode, tone, dtcs, junk) ==
    LET t == TableAt(CTCSS_TONES, tone, junk.tone)
        d == TableAt(DCS_CODES, dtcs, junk.code)
    IN  CASE tmode = T_TONE -> [NoSquelch EXCEPT !.tx_ctcs = t]
          [] tmode = T_TSQL -> [NoSquelch EXCEPT !.tx_ctcs = t, !.rx_ctcs = t]
          [] tmode = T_TSQL_REV ->
                 [NoSquelch EXCEPT !.tx_ctcs = t, !.rx_ctcs = 0 - t]
          [] tmode = T_DTCS -> [NoSquelch EXCEPT !.tx_dcs = d, !.rx_dcs = d]
          [] tmode = T_D -> [NoSquelch EXCEPT !.tx_dcs = d]
          [] tmode = T_T_DCS -> [NoSquelch EXCEPT !.tx_ctcs = t, !.rx_dcs = d]
          [] tmode = T_D_TSQL -> [NoSquelch EXCEPT !.tx_dcs = d, !.rx_ctcs = t]
          [] OTHER -> NoSquelch

\* vx-2.c decode_channel, "Decode squelch modes"
vx2_decode_squelch(tmode, tone, dtcs, junk) ==
    LET t == TableAt(CTCSS_TONES, tone, junk.tone)
        d == TableAt(DCS_CODES, dtcs, junk.code)
    IN  CASE tmode = T_TONE -> [NoSquelch EXCEPT !.tx_ctcs = t]
          [] tmode = T_TSQL -> [NoSquelch EXCEPT !.tx_ctcs = t, !.rx_ctcs = t]
          [] tmode = VX2_T_DTCS -> [NoSquelch EXCEPT !.tx_dcs = d, !.rx_dcs = d]
          [] OTHER -> NoSquelch

decode_squelch(r, tmode, tone, dtcs, junk) ==
    IF r = FT60 THEN ft60_decode_squelch(tmode, tone, dtcs, junk)
    ELSE vx2_decode_squelch(tmode, tone, dtcs, junk)

\* squelch texts of the rows: "-", tones in and out of the table (70.0 Hz is
\* no CTCSS tone, 50.0 Hz is under the 0x258 limit), D-codes in and out of
\* the table, and negated tones
SqOff == [k |-> "off", v |-> 0]

RxTexts ==
    {SqOff} \cup {[k |-> "tone", v |-> t] : t \in {885, 1000, 700, 500}}
            \cup {[k |-> "dcs", v |-> c] : c \in {23, 754, 24}}
            \cup {[k |-> "rev", v |-> t] : t \in {885, 700}}

TxTexts ==
    {SqOff} \cup {[k |-> "tone", v |-> t] : t \in {885, 1000, 700, 500}}
            \cup {[k |-> "dcs", v |-> c] : c \in {23, 754, 24}}

\* the squelch codec is exercised on a pair of texts: encoded, then decoded
SqInit ==
    /\ radio \in Radios
    /\ pc = "codec"
    /\ radio_mem = [a \in 0..MEMSZ(radio) |-> 0]
    /\ TransferIdle
    /\ \E rx \in RxTexts, t \in TxTexts :
           cv = [mode |-> "squelch", step |-> 0, rx |-> rx, tx |-> t,
                 enc |-> [tmode |-> T_OFF, tone |-> TONE_DEFAULT, dtcs |-> 0],
                 dec |-> NoSquelch]

\* encode_squelch is applied to the two texts
SqEncode ==
    /\ pc = "codec" /\ cv.mode = "squelch" /\ cv.step = 0
    /\ cv' = [cv EXCEPT !.enc = encode_squelch(radio, cv.rx, cv.tx), !.step = 1]
    /\ UNCHANGED <<radio, pc, radio_mem, transfer>>

\* decode_channel reads the squelch selection back from the record
SqDecode ==
    /\ pc = "codec" /\ cv.mode = "squelch" /\ cv.step = 1
    /\ \E junk \in Junk :
           cv' = [cv EXCEPT
                     !.dec = decode_squelch(radio, cv.enc.tmode, cv.enc.tone,
                                            cv.enc.dtcs, junk),
                     !.step = 2]
    /\ UNCHANGED <<radio, pc, radio_mem, transfer>>

SqNext == SqEncode \/ SqDecode

SquelchSpec == SqInit /\ [][SqNext]_vars
----------------------------------------------------------------------------
(* Channel names: encode_char, encode_name, decode_name.                   *)
(* A text name is a sequence of characters, each a one-character string.   *)
(* A stored character is its 0-based index in CHARSET.                     *)

\* the grave accent, character 0x60: inside a string the lexer would take
\* that character for the start of quoted text, so it is written by name
GRAVE == "grave"

\* ft-60.c CHARSET, indices 0..64
FT60_CHARSET ==
    << "0", "1", "2", "3", "4", "5", "6", "7", "8", "9", "A", "B", "C",
       "D", "E", "F", "G", "H", "I", "J", "K", "L", "M", "N", "O", "P",
       "Q", "R", "S", "T", "U", "V", "W", "X", "Y", "Z", " ", "!", GRAVE,
       "o", "$", "%", "&", "'", "(", ")", "*", "+", ",", "-", ".", "/",
       "|", ";", "/", "=", ">", "?", "@", "[", "~", "]", "^", "_", "_" >>

\* vx-2.c CHARSET, indices 0..41
VX2_CHARSET ==
    << "0", "1", "2", "3", "4", "5", "6", "7", "8", "9", "A", "B", "C",
       "D", "E", "F", "G", "H", "I", "J", "K", "L", "M", "N", "O", "P",
       "Q", "R", "S", "T", "U", "V", "W", "X", "Y", "Z", " ", "+", "-",
       "/", "[", "]" >>

CHARSET(r) == IF r = FT60 THEN FT60_CHARSET ELSE VX2_CHARSET

NCHARS(r) == Len(CHARSET(r))

\* index of the space in both character sets
SPACE == 36

\* ft-60.c: index stored for a character outside the set
OPENBOX == 64

LowerCase ==
    << "a", "b", "c", "d", "e", "f", "g", "h", "i", "j", "k", "l", "m",
       "n", "o", "p", "q", "r", "s", "t", "u", "v", "w", "x", "y", "z" >>

UpperCase ==
    << "A", "B", "C", "D", "E", "F", "G", "H", "I", "J", "K", "L", "M",
       "N", "O", "P", "Q", "R", "S", "T", "U", "V", "W", "X", "Y", "Z" >>

\* c += 'A' - 'a' for the letters a..z
ToUpper(c) ==
    IF \E i \in 1..Len(LowerCase) : LowerCase[i] = c
    THEN UpperCase[CHOOSE i \in 1..Len(LowerCase) : LowerCase[i] = c]
    ELSE c

\* encode_char: underscore becomes space, letters are folded to upper case,
\* a character outside the set becomes OPENBOX (ft-60.c) or SPACE (vx-2.c)
encode_char(r, c) ==
    LET c1 == IF c = "_" THEN " " ELSE c
        c2 == ToUpper(c1)
        i == Lookup(CHARSET(r), c2)
    IN  IF i >= 0 THEN i ELSE IF r = FT60 THEN OPENBOX ELSE SPACE

\* the first six characters encoded, the rest of the field filled with SPACE
EncodeChars(r, name) ==
    [n \in 1..6 |-> IF n <= Len(name) THEN encode_char(r, name[n]) ELSE SPACE]

\* ft-60.c encode_name: the name record [name, used, valid] of a channel;
\* an empty name or one that starts with '-' clears the record
ft60_encode_name(name) ==
    IF name # <<>> /\ name[1] # "-"
    THEN [name |-> EncodeChars(FT60, name), used |-> 1, valid |-> 1]
    ELSE [name |-> [n \in 1..6 |-> 255], used |-> 0, valid |-> 0]

\* the text "      "
SixSpaces == <<" ", " ", " ", " ", " ", " ">>

\* vx-2.c encode_name: the six name bytes of a channel; an empty name or one
\* that starts with '-' is stored as six spaces; bit 7 of the first byte
\* marks a name to display
vx2_encode_name(name) ==
    LET s == IF name = <<>> \/ name[1] = "-" THEN SixSpaces ELSE name
        internal == EncodeChars(VX2, s)
    IN  IF internal[1] # SPACE
        THEN [internal EXCEPT ![1] = internal[1] + 128]
        ELSE internal

\* the decoded characters with the trailing underscores cut off
StripTrailing(s) ==
    LET keep == {n \in 1..Len(s) : s[n] # "_"}
    IN  IF keep = {} THEN <<>>
        ELSE SubSeq(s, 1, CHOOSE n \in keep : \A m \in keep : m <= n)

\* the character decode_name gives for a stored code c of at most 7 bits
DecodeChar(r, c) ==
    LET ch == IF c < NCHARS(r) THEN CHARSET(r)[c + 1] ELSE " "
    IN  IF ch = " " THEN "_" ELSE ch

\* ft-60.c decode_name into the buffer decode_channel has emptied
ft60_decode_name(nm) ==
    IF nm.valid = 1 /\ nm.used = 1
    THEN StripTrailing([n \in 1..6 |-> DecodeChar(FT60, nm.name[n])])
    ELSE <<>>

\* vx-2.c decode_name into the buffer decode_channel has emptied
vx2_decode_name(internal) ==
    IF internal[1] % 128 < NCHARS(VX2)
    THEN StripTrailing([n \in 1..6 |-> DecodeChar(VX2, internal[n] % 128)])
    ELSE <<>>

\* a stored name of either driver, encoded and decoded
encode_name(r, name) ==
    IF r = FT60 THEN ft60_encode_name(name) ELSE vx2_encode_name(name)

decode_name(r, stored) ==
    IF r = FT60 THEN ft60_decode_name(stored) ELSE vx2_decode_name(stored)

\* longest sampled name built from NameAlphabet
MaxNameLen == 3

\* characters of the sampled names: a capital, a small letter, the
\* underscore, the dash, a character of neither set, a symbol of both sets
NameAlphabet == {"A", "b", "_", "-", "#", "]"}

RECURSIVE NamesOfLen(_)
NamesOfLen(n) ==
    IF n = 0 THEN {<<>>}
    ELSE {Append(s, c) : s \in NamesOfLen(n - 1), c \in NameAlphabet}

\* names of a text row: every name of 1..MaxNameLen sampled characters, and
\* names of six and of seven characters
NameInputs ==
    UNION {NamesOfLen(n) : n \in 1..MaxNameLen}
        \cup { <<"A", "b", "_", "]", "A", "_">>,
               <<"b", "A", "]", "_", "b", "A", "]">>,
               <<"A", "-", "b", "#", "_", "A", "b">> }

\* the name codec is exercised on a name: encoded, then decoded
NameInit ==
    /\ radio \in Radios
    /\ pc = "codec"
    /\ radio_mem = [a \in 0..MEMSZ(radio) |-> 0]
    /\ TransferIdle
    /\ \E s \in NameInputs :
           cv = [mode |-> "name", step |-> 0, name |-> s,
                 stored |-> encode_name(radio, <<>>), out |-> <<>>]

\* encode_name stores the name
NameEncode ==
    /\ pc = "codec" /\ cv.mode = "name" /\ cv.step = 0
    /\ cv' = [cv EXCEPT !.stored = encode_name(radio, cv.name), !.step = 1]
    /\ UNCHANGED <<radio, pc, radio_mem, transfer>>

\* decode_name reads the stored name back
NameDecode ==
    /\ pc = "codec" /\ cv.mode = "name" /\ cv.step = 1
    /\ cv' = [cv EXCEPT !.out = decode_name(radio, cv.stored), !.step = 2]
    /\ UNCHANGED <<radio, pc, radio_mem, transfer>>

NameNext == NameEncode \/ NameDecode

NameSpec == NameInit /\ [][NameNext]_vars
----------------------------------------------------------------------------
(* Text tables: the table regions of the image and the row parsers.        *)
(*                                                                         *)
(* In the specifications of this part radio_mem is the image seen as its   *)
(* table regions: a record with one field per region, each a function from *)
(* the 0-based record index to the fields of the C struct.  Only padding   *)
(* fields (_u1 .. _u6, clk), which the setup functions fill with           *)
(* constants, are left out.                                                *)
(*                                                                         *)
(* Scaling.  The tables have NCHAN = 1000 channels, NPMS = 50 pairs,       *)
(* NBANKS = 10 (FT-60) or 20 (VX-2) banks and, on VX-2, 100 slots per      *)
(* bank; the model keeps the layout and scales these four numbers.         *)
(*                                                                         *)
(* A frequency of a text row is named by its value in Hz; the parsers read *)
(* it as a double of MHz (TextMhz) and the setup functions compute on that *)
(* double, so that (int)(mhz * 1000000.0), iround and the offset in steps  *)
(* of 0.05 MHz come out as in the C arithmetic.                            *)

\* number of memory channels (1000 in both drivers)
NCHAN == 10

\* number of PMS pairs (50 in both drivers)
NPMS == 2

\* number of banks (10 on FT-60, 20 on VX-2)
NBANKS == 2

\* vx-2.c: slots of one bank (100)
NSLOTS == 6

\* duplex codes of a record
D_SIMPLEX == 0
FT60_D_NEG_OFFSET == 2
FT60_D_POS_OFFSET == 3
D_CROSS_BAND == 4
VX2_D_NEG_OFFSET == 1
VX2_D_POS_OFFSET == 2
D_DUPLEX == 3

\* step codes the setup functions store
STEP_5 == 0
STEP_12_5 == 2

\* vx-2.c power codes
PWR_HIGH == 0
PWR_LOW == 3

\* vx-2.c modulation codes; MOD_NFM does not fit the 2-bit amfm field
MOD_FM == 0
MOD_AM == 1
MOD_WFM == 2
MOD_AUTO == 3
MOD_NFM == 4

\* vx-2.c channel flags, four bits per channel
FLAG_UNMASKED == 1
FLAG_VALID == 2
FLAG_SKIP == 4
FLAG_PSKIP == 8

\* scan codes of a row
SCAN_NORMAL == 0
SCAN_SKIP == 1
SCAN_PREFERENTIAL == 2

\* 2^n
RECURSIVE Pow2(_)
Pow2(n) == IF n = 0 THEN 1 ELSE 2 * Pow2(n - 1)

\* the field of width bits at shift of a byte, read and replaced
GetBits(byte, shift, width) == (byte \div Pow2(shift)) % Pow2(width)

SetBits(byte, shift, width, val) ==
    byte - GetBits(byte, shift, width) * Pow2(shift)
         + (val % Pow2(width)) * Pow2(shift)

\* vx-2.c iround: the nearest integer, (int)(x + 0.5) on either side of 0
iround(x) ==
    IF DblSign(x) >= 0 THEN DblToInt(DblAdd(x, D_0_5))
    ELSE 0 - DblToInt(DblAdd(DblNeg(x), D_0_5))

\* (int) (offset_mhz / 0.05 + 0.5) as it lands in the 8-bit offset field
ft60_offset_steps(offset_mhz) ==
    DblToInt(DblAdd(DblDiv(offset_mhz, D_0_05), D_0_5)) % 256

\* ft-60.c setup_channel, the chain of ifs on offset_mhz = tx_mhz - rx_mhz:
\* simplex for 0, a positive or a negative offset of fewer than 256 steps
\* of 0.05 MHz, else cross band with the transmit frequency stored
ft60_offset_fields(offset_mhz, tx_mhz) ==
    IF DblSign(offset_mhz) = 0
    THEN [duplex |-> D_SIMPLEX, offset |-> 0, txfreq |-> <<0, 0, 0>>]
    ELSE IF DblSign(offset_mhz) > 0 /\ DblCmp(offset_mhz, D_256x0_05) < 0
    THEN [duplex |-> FT60_D_POS_OFFSET, offset |-> ft60_offset_steps(offset_mhz),
          txfreq |-> <<0, 0, 0>>]
    ELSE IF DblSign(offset_mhz) < 0 /\ DblCmp(offset_mhz, DblNeg(D_256x0_05)) > 0
    THEN [duplex |-> FT60_D_NEG_OFFSET,
          offset |-> ft60_offset_steps(DblNeg(offset_mhz)),
          txfreq |-> <<0, 0, 0>>]
    ELSE [duplex |-> D_CROSS_BAND, offset |-> 0,
          txfreq |-> ft60_hz_to_freq(DblToInt(DblMul(tx_mhz, D_1000000)))]

\* ft-60.c setup_channel / setup_home: the record written for a receive and
\* a transmit frequency, doubles of MHz
ft60_setup_record(rx_mhz, tx_mhz, tmode, tone, dtcs, power, wide, isam) ==
    ft60_offset_fields(DblSub(tx_mhz, rx_mhz), tx_mhz) @@
    [ rxfreq |-> ft60_hz_to_freq(DblToInt(DblMul(rx_mhz, D_1000000))),
      used |-> IF DblSign(rx_mhz) > 0 THEN 1 ELSE 0,
      tmode |-> tmode % 8,
      tone |-> tone % 64,
      dtcs |-> dtcs % 128,
      power |-> power % 4,
      isnarrow |-> IF wide = 0 THEN 1 ELSE 0,
      isam |-> isam % 2,
      step |-> IF DblCmp(rx_mhz, D_400) >= 0 THEN STEP_12_5 ELSE STEP_5 ]

ft60_setup_channel_scanbyte(mem, i, name, rx_mhz, tx_mhz, tmode, tone, dtcs, power, wide, scan, isam) ==
    [mem EXCEPT
        !.chan[i] = ft60_setup_record(rx_mhz, tx_mhz, tmode, tone, dtcs,
                                      power, wide, isam),
        !.scan[i \div 4] = scan * Pow2((i % 4) * 2),
        !.names[i] = ft60_encode_name(name)]

\* ft-60.c setup_channel: record, scan bits and name of channel i
ft60_setup_channel(mem, i, name, rx_mhz, tx_mhz, tmode, tone, dtcs, power, wide, scan, isam) ==
    [mem EXCEPT
        !.chan[i] = ft60_setup_record(rx_mhz, tx_mhz, tmode, tone, dtcs,
                                      power, wide, isam),
        !.scan[i \div 4] = SetBits(@, (i % 4) * 2, 2, scan),
        !.names[i] = ft60_encode_name(name)]

\* vx-2.c set_flags / get_flags on the nibble of channel i
set_flags(mem, i, flags) == [mem EXCEPT !.flags[i] = flags % 16]

get_flags(mem, i) == mem.flags[i]

\* vx-2.c setup_channel / setup_home / setup_vfo / setup_pms: the record
\* written for a receive and a transmit frequency, doubles of MHz; the
\* offset is rounded to kHz
vx2_offset_fields(offset_khz, tx_mhz) ==
    IF offset_khz = 0 THEN [duplex |-> D_SIMPLEX, offset |-> <<0, 0, 0>>]
    ELSE IF offset_khz > 0 /\ offset_khz < 100000
    THEN [duplex |-> VX2_D_POS_OFFSET, offset |-> vx2_hz_to_freq(offset_khz * 1000)]
    ELSE IF offset_khz < 0 /\ 0 - offset_khz < 100000
    THEN [duplex |-> VX2_D_NEG_OFFSET,
          offset |-> vx2_hz_to_freq((0 - offset_khz) * 1000)]
    ELSE [duplex |-> D_DUPLEX,
          offset |-> vx2_hz_to_freq(iround(DblMul(tx_mhz, D_1000000)))]

vx2_setup_record(name, rx_mhz, tx_mhz, tmode, tone, dcs, power, amfm, step) ==
    vx2_offset_fields(iround(DblMul(DblSub(tx_mhz, rx_mhz), D_1000)), tx_mhz) @@
    [ rxfreq |-> vx2_hz_to_freq(iround(DblMul(rx_mhz, D_1000000))),
      tmode |-> tmode % 4,
      tone |-> tone % 64,
      dcs |-> dcs % 128,
      power |-> power % 4,
      isnarrow |-> IF amfm = MOD_NFM THEN 1 ELSE 0,
      amfm |-> amfm % 4,
      step |-> step % 16,
      name |-> vx2_encode_name(name) ]

\* vx-2.c setup_channel: record and flags of channel i
vx2_setup_channel(mem, i, name, rx_mhz, tx_mhz, tmode, tone, dcs, power, scan, amfm) ==
    set_flags([mem EXCEPT
                  !.chan[i] = vx2_setup_record(name, rx_mhz, tx_mhz, tmode, tone,
                                               dcs, power, amfm, STEP_12_5)],
              i,
              FLAG_VALID + FLAG_UNMASKED
              + (IF scan = SCAN_SKIP THEN FLAG_SKIP
                 ELSE IF scan = SCAN_PREFERENTIAL THEN FLAG_PSKIP ELSE 0))

\* the outcome of a row parser: its return value, the image it leaves, and
\* whether it ended the process with exit()
ParseFail(mem) == [ok |-> 0, mem |-> mem, halt |-> FALSE]

ParseOk(mem) == [ok |-> 1, mem |-> mem, halt |-> FALSE]

\* the transmit frequency of an offset text: "rel" is a text with a leading
\* sign, whose double is added to the receive frequency (tx_mhz += rx_mhz);
\* "abs" is a plain frequency; "dash" is "-", which vx-2.c takes as simplex
\* and on which sscanf of ft-60.c fails
OffsetTx(k, off_mhz, rx_mhz) ==
    IF k = "rel" THEN DblAdd(off_mhz, rx_mhz) ELSE off_mhz

TxOfOffset(r, off, rx_mhz) ==
    IF off.k \in {"rel", "abs"} THEN OffsetTx(off.k, TextMhz(off.hz), rx_mhz)
    ELSE rx_mhz

\* the frequency checks of the row parsers on the doubles of the receive
\* and the offset text
FreqFieldsOk(r, off, rx_mhz, tx_mhz) ==
    /\ is_valid_frequency(r, rx_mhz)
    /\ IF off.k = "dash" THEN r = VX2 ELSE is_valid_frequency(r, tx_mhz)

\* character k of a text; "" stands for the 0 that ends it
CharAt(s, k) == IF k <= Len(s) THEN SubSeq(s, k, k) ELSE ""

\* strcasecmp(s1, s2) == 0: the texts have the same length and the same
\* characters once the letters are folded to one case
SameNoCase(s1, s2) ==
    /\ Len(s1) = Len(s2)
    /\ \A k \in 1..Len(s1) : ToUpper(CharAt(s1, k)) = ToUpper(CharAt(s2, k))

\* ft-60.c: power text to code, -1 for "Bad power level"
ft60_power_any(s) == 0

ft60_power(s) ==
    IF SameNoCase("High", s) THEN 0
    ELSE IF SameNoCase("Mid", s) THEN 1
    ELSE IF SameNoCase("Low", s) THEN 2
    ELSE -1

\* vx-2.c: power text to code, -1 for "Bad power level"
vx2_power(s) ==
    IF SameNoCase("High", s) THEN PWR_HIGH
    ELSE IF SameNoCase("Low", s) \/ SameNoCase("-", s) THEN PWR_LOW
    ELSE -1

power_code(r, s) == IF r = FT60 THEN ft60_power(s) ELSE vx2_power(s)

\* ft-60.c: width text to [wide, isam], ok = 0 for "Bad modulation width"
ft60_wide(s) ==
    IF SameNoCase("Wide", s) THEN [ok |-> 1, wide |-> 1, isam |-> 0]
    ELSE IF SameNoCase("Narrow", s) THEN [ok |-> 1, wide |-> 0, isam |-> 0]
    ELSE IF SameNoCase("AM", s) THEN [ok |-> 1, wide |-> 1, isam |-> 1]
    ELSE [ok |-> 0, wide |-> 0, isam |-> 0]

\* vx-2.c: modulation text to code, -1 for "Bad modulation"
vx2_mod(s) ==
    IF SameNoCase("FM", s) THEN MOD_FM
    ELSE IF SameNoCase("AM", s) THEN MOD_AM
    ELSE IF SameNoCase("WFM", s) THEN MOD_WFM
    ELSE IF SameNoCase("NFM", s) THEN MOD_NFM
    ELSE IF SameNoCase("Auto", s) THEN MOD_AUTO
    ELSE -1

\* scan text to code, -1 for "Bad scan flag": only the first character is
\* looked at for '+' and '-' (*scan_str == '+'), any text may follow it
scan_code(s) ==
    IF CharAt(s, 1) = "+" THEN SCAN_NORMAL
    ELSE IF CharAt(s, 1) = "-" THEN SCAN_SKIP
    ELSE IF SameNoCase("Only", s) THEN SCAN_PREFERENTIAL
    ELSE -1

\* vx-2.c: step text to code, -1 for "Bad frequency step"
vx2_step(s) ==
    Lookup(<<"5", "10", "12.5", "15", "20", "25", "50", "100", "9">>, s)

\* ft-60.c parse_channel, "On first entry, erase the channel table":
\* setup_channel(i, 0, 0, 0, 0, TONE_DEFAULT, 0, 0, 1, 0, 0) for i = from..NCHAN-1
RECURSIVE ft60_erase_channels(_, _)
ft60_erase_channels(mem, from) ==
    IF from >= NCHAN THEN mem
    ELSE ft60_erase_channels(
             ft60_setup_channel(mem, from, <<>>, DblZero, DblZero, 0,
                                TONE_DEFAULT, 0, 0,
                                1, 0, 0),
             from + 1)

\* ft-60.c parse_channel on the fields of a row, rx_mhz and tx_mhz being
\* the doubles read from its frequency texts
ft60_channel_fields(mem, first_row, row, rx_mhz, tx_mhz) ==
    LET sq == ft60_encode_squelch(row.rq, row.tq)
        power == ft60_power(row.power)
        wd == ft60_wide(row.mod)
        scan == scan_code(row.scan)
    IN  IF row.num < 1 \/ row.num > NCHAN THEN ParseFail(mem)
        ELSE IF ~FreqFieldsOk(FT60, row.off, rx_mhz, tx_mhz) THEN ParseFail(mem)
        ELSE IF power < 0 THEN ParseFail(mem)
        ELSE IF wd.ok = 0 THEN ParseFail(mem)
        ELSE IF scan < 0 THEN ParseFail(mem)
        ELSE ParseOk(ft60_setup_channel(
                         IF first_row THEN ft60_erase_channels(mem, 0) ELSE mem,
                         row.num - 1, row.name, rx_mhz, tx_mhz, sq.tmode,
                         sq.tone, sq.dtcs, power, wd.wide, scan, wd.isam))

\* ft-60.c parse_channel; a row is [num, name, rx, off, rq, tq, power, mod,
\* scan, ...]
ft60_parse_channel(mem, first_row, row) ==
    ft60_channel_fields(mem, first_row, row, TextMhz(row.rx),
                        TxOfOffset(FT60, row.off, TextMhz(row.rx)))

\* a record of vx-2.c after memset(..., 0xff, ...)
VX2_FF ==
    [ duplex |-> 3, offset |-> <<255, 255, 255>>, rxfreq |-> <<255, 255, 255>>,
      tmode |-> 3, tone |-> 63, dcs |-> 127, power |-> 3, isnarrow |-> 1,
      amfm |-> 3, step |-> 15, name |-> [n \in 1..6 |-> 255] ]

\* vx-2.c parse_channel, "On first entry, erase the channel table": the
\* records are filled with 0xff and the NCHAN/2 flag bytes of the channels
\* (NCHAN is even in the source) are cleared
vx2_erase_channels(mem) ==
    [mem EXCEPT
        !.chan = [i \in 0..(NCHAN - 1) |-> VX2_FF],
        !.flags = [i \in DOMAIN mem.flags |->
                      IF i < NCHAN THEN 0 ELSE mem.flags[i]]]

\* vx-2.c parse_channel on the fields of a row, rx_mhz and tx_mhz being
\* the doubles read from its frequency texts
vx2_channel_fields(mem, first_row, row, rx_mhz, tx_mhz) ==
    LET sq == vx2_encode_squelch(row.rq, row.tq)
        power == vx2_power(row.power)
        amfm == vx2_mod(row.mod)
        scan == scan_code(row.scan)
    IN  IF row.num < 1 \/ row.num > NCHAN THEN ParseFail(mem)
        ELSE IF ~FreqFieldsOk(VX2, row.off, rx_mhz, tx_mhz) THEN ParseFail(mem)
        ELSE IF power < 0 THEN ParseFail(mem)
        ELSE IF amfm < 0 THEN ParseFail(mem)
        ELSE IF scan < 0 THEN ParseFail(mem)
        ELSE ParseOk(vx2_setup_channel(
                         IF first_row THEN vx2_erase_channels(mem) ELSE mem,
                         row.num - 1, row.name, rx_mhz, tx_mhz, sq.tmode,
                         sq.tone, sq.dtcs, power, scan, amfm))

\* vx-2.c parse_channel
vx2_parse_channel(mem, first_row, row) ==
    vx2_channel_fields(mem, first_row, row, TextMhz(row.rx),
                       TxOfOffset(VX2, row.off, TextMhz(row.rx)))

\* ft-60.c setup_home: the home channel of a band
ft60_home_index(band) ==
    CASE band = 250 -> 1
      [] band = 350 -> 2
      [] band = 430 -> 3
      [] band = 850 -> 4
      [] OTHER -> 0

\* ft-60.c parse_home on the fields of a row, rx_mhz and tx_mhz being the
\* doubles read from its frequency texts
ft60_home_fields(mem, row, rx_mhz, tx_mhz) ==
    LET sq == ft60_encode_squelch(row.rq, row.tq)
        power == ft60_power(row.power)
        wd == ft60_wide(row.mod)
    IN  IF row.band \notin {144, 250, 350, 430, 850} THEN ParseFail(mem)
        ELSE IF ~FreqFieldsOk(FT60, row.off, rx_mhz, tx_mhz) THEN ParseFail(mem)
        ELSE IF power < 0 THEN ParseFail(mem)
        ELSE IF wd.ok = 0 THEN ParseFail(mem)
        ELSE ParseOk([mem EXCEPT !.home[ft60_home_index(row.band)] =
                         ft60_setup_record(rx_mhz, tx_mhz, sq.tmode, sq.tone,
                                           sq.dtcs, power, wd.wide, wd.isam)])

\* ft-60.c parse_home (first_row is not used); a row is [band, rx, off, rq,
\* tq, power, mod, ...]
ft60_parse_home(mem, first_row, row) ==
    ft60_home_fields(mem, row, TextMhz(row.rx),
                     TxOfOffset(FT60, row.off, TextMhz(row.rx)))

\* vx-2.c setup_home / setup_vfo: index 4 of the twelve records is skipped
vx2_band_index(band) == IF band <= 4 THEN band - 1 ELSE band

\* vx-2.c parse_home and parse_vfo on the fields of a row, rx_mhz and
\* tx_mhz being the doubles read from its frequency texts
vx2_band_fields(mem, table, row, rx_mhz, tx_mhz) ==
    LET sq == vx2_encode_squelch(row.rq, row.tq)
        power == vx2_power(row.power)
        amfm == vx2_mod(row.mod)
        step == vx2_step(row.step)
    IN  IF row.band < 1 \/ row.band > 11 THEN ParseFail(mem)
        ELSE IF ~FreqFieldsOk(VX2, row.off, rx_mhz, tx_mhz) THEN ParseFail(mem)
        ELSE IF power < 0 THEN ParseFail(mem)
        ELSE IF amfm < 0 THEN ParseFail(mem)
        ELSE IF step < 0 THEN ParseFail(mem)
        ELSE ParseOk([mem EXCEPT ![table][vx2_band_index(row.band)] =
                         vx2_setup_record(SixSpaces, rx_mhz, tx_mhz, sq.tmode,
                                          sq.tone, sq.dtcs, power, amfm, step)])

\* vx-2.c parse_home and parse_vfo (first_row is not used): the record of
\* the band in the region table ("home" or "vfo"); a row is [band, rx,
\* off, rq, tq, step, power, mod, ...]
vx2_parse_band(mem, table, row) ==
    vx2_band_fields(mem, table, row, TextMhz(row.rx),
                    TxOfOffset(VX2, row.off, TextMhz(row.rx)))

vx2_parse_home(mem, first_row, row) == vx2_parse_band(mem, "home", row)

vx2_parse_vfo(mem, first_row, row) == vx2_parse_band(mem, "vfo", row)

\* ft-60.c setup_pms: pair i is marked unused when the lower frequency is 0,
\* else both records get their frequency and the used bit
ft60_setup_pms(mem, i, lower_mhz, upper_mhz) ==
    IF DblSign(lower_mhz) = 0
    THEN [mem EXCEPT !.pms[2 * i].used = 0, !.pms[2 * i + 1].used = 0]
    ELSE [mem EXCEPT
             !.pms[2 * i].rxfreq =
                 ft60_hz_to_freq(DblToInt(DblMul(lower_mhz, D_1000000))),
             !.pms[2 * i].used = 1,
             !.pms[2 * i + 1].rxfreq =
                 ft60_hz_to_freq(DblToInt(DblMul(upper_mhz, D_1000000))),
             !.pms[2 * i + 1].used = 1]

\* ft-60.c parse_pms, "On first entry, erase the PMS table"
RECURSIVE ft60_erase_pms(_, _)
ft60_erase_pms(mem, from) ==
    IF from >= NPMS THEN mem
    ELSE ft60_erase_pms(ft60_setup_pms(mem, from, DblZero, DblZero), from + 1)

\* ft-60.c parse_pms on the fields of a row, lower_mhz and upper_mhz being
\* the doubles read from its frequency texts
ft60_pms_fields(mem, first_row, row, lower_mhz, upper_mhz) ==
    IF row.num < 1 \/ row.num > NPMS THEN ParseFail(mem)
    ELSE IF ~is_valid_frequency(FT60, lower_mhz) THEN ParseFail(mem)
    ELSE IF ~is_valid_frequency(FT60, upper_mhz) THEN ParseFail(mem)
    ELSE ParseOk(ft60_setup_pms(
                     IF first_row THEN ft60_erase_pms(mem, 0) ELSE mem,
                     row.num - 1, lower_mhz, upper_mhz))

\* ft-60.c parse_pms; a row is [num, lower, upper, ...]
ft60_parse_pms(mem, first_row, row) ==
    ft60_pms_fields(mem, first_row, row, TextMhz(row.lower), TextMhz(row.upper))

\* vx-2.c setup_pms: record i of the PMS region and its flags
vx2_setup_pms(mem, i, mhz) ==
    set_flags([mem EXCEPT !.pms[i] =
                  vx2_setup_record(SixSpaces, mhz, mhz, 0, 0, 0, 0, 0, STEP_12_5)],
              NCHAN + i, FLAG_VALID + FLAG_UNMASKED)

\* vx-2.c parse_pms, "On first entry, erase the PMS table": the records
\* are filled with 0xff and the NPMS flag bytes that follow those of the
\* channels are cleared
vx2_erase_pms(mem) ==
    [mem EXCEPT
        !.pms = [i \in 0..(2 * NPMS - 1) |-> VX2_FF],
        !.flags = [i \in DOMAIN mem.flags |->
                      IF i >= NCHAN THEN 0 ELSE mem.flags[i]]]

\* vx-2.c parse_pms on the fields of a row, lower_mhz and upper_mhz being
\* the doubles read from its frequency texts
vx2_pms_fields(mem, first_row, row, lower_mhz, upper_mhz) ==
    IF row.num < 1 \/ row.num > NPMS THEN ParseFail(mem)
    ELSE IF ~is_valid_frequency(VX2, lower_mhz) THEN ParseFail(mem)
    ELSE IF ~is_valid_frequency(VX2, upper_mhz) THEN ParseFail(mem)
    ELSE ParseOk(vx2_setup_pms(
                     vx2_setup_pms(IF first_row THEN vx2_erase_pms(mem) ELSE mem,
                                   row.num * 2 - 2, lower_mhz),
                     row.num * 2 - 1, upper_mhz))

\* vx-2.c parse_pms
vx2_parse_pms(mem, first_row, row) ==
    vx2_pms_fields(mem, first_row, row, TextMhz(row.lower), TextMhz(row.upper))

----------------------------------------------------------------------------
(* Banks.  The channel list of a row is its text, such as "2,5-7,10" or   *)
(* "-"; being read with %s it is not empty and holds no white space.       *)
(* print_bank renders a list as a sequence of items [sep, num], the number *)
(* printed with %d and the character printed in front of it ("" for the    *)
(* first item): "2,5-7,10" is                                              *)
(* <<["", 2], [",", 5], ["-", 7], [",", 10]>>, and a bank without channels *)
(* gets the empty sequence.  On FT-60 a bank is the set of the channel     *)
(* indices whose bit is set; on VX-2 it is NSLOTS 16-bit slots (0xffff =   *)
(* free) and the count word of OFFSET_BNCHAN, both taken in host order     *)
(* after big_endian_16.                                                    *)

\* the largest int
INT_MAX == 2147483647

\* a free slot, an unused bank count, and the banks-unused marker
FREE == 65535

\* ft-60.c setup_bank: the bit of the channel is set
ft60_setup_bank(mem, bank_index, chan_index) ==
    [ok |-> TRUE,
     mem |-> [mem EXCEPT !.banks[bank_index] = @ \cup {chan_index}]]

\* vx-2.c setup_bank: the first free slot takes the channel; without a free
\* slot the process exits
vx2_setup_bank(mem, bank_index, chan_index) ==
    LET data == mem.banks[bank_index]
        free == {n \in 1..NSLOTS : data[n] = FREE}
        slot == CHOOSE n \in free : \A m \in free : n <= m
    IN  IF free = {} THEN [ok |-> FALSE, mem |-> mem]
        ELSE [ok |-> TRUE,
              mem |-> [mem EXCEPT !.banks[bank_index][slot] = chan_index]]

setup_bank(r, mem, bank_index, chan_index) ==
    IF r = FT60 THEN ft60_setup_bank(mem, bank_index, chan_index)
    ELSE vx2_setup_bank(mem, bank_index, chan_index)

\* setup_bank for the channel indices from..(to - 1), in ascending order;
\* stops when setup_bank exits
RECURSIVE AddRange(_, _, _, _, _)
AddRange(r, mem, bank_index, from, to) ==
    IF from >= to THEN [ok |-> TRUE, mem |-> mem]
    ELSE LET res == setup_bank(r, mem, bank_index, from)
         IN  IF ~res.ok THEN res
             ELSE AddRange(r, res.mem, bank_index, from + 1, to)

\* value of a decimal digit, -1 for another character
digit_value(c) ==
    IF \E k \in 1..10 : CharAt("0123456789", k) = c
    THEN (CHOOSE k \in 1..10 : CharAt("0123456789", k) = c) - 1
    ELSE -1

\* number of decimal digits a text starts with
DigitRun(s) ==
    CHOOSE n \in 0..Len(s) :
        /\ \A k \in 1..n : digit_value(CharAt(s, k)) >= 0
        /\ n = Len(s) \/ digit_value(CharAt(s, n + 1)) < 0

\* number of zeros the first n characters of a text start with
ZeroRun(s, n) ==
    CHOOSE z \in 0..n :
        /\ \A k \in 1..z : CharAt(s, k) = "0"
        /\ z = n \/ CharAt(s, z + 1) # "0"

\* 10^t for t in 0..4, by table
TenTo(t) == <<1, 10, 100, 1000, 10000>>[t + 1]

\* the number written by the c digits of s from place k on, c at most 4
Digits4(s, k, c) ==
    (IF c >= 1 THEN digit_value(CharAt(s, k)) * TenTo(c - 1) ELSE 0)
    + (IF c >= 2 THEN digit_value(CharAt(s, k + 1)) * TenTo(c - 2) ELSE 0)
    + (IF c >= 3 THEN digit_value(CharAt(s, k + 2)) * TenTo(c - 3) ELSE 0)
    + (IF c >= 4 THEN digit_value(CharAt(s, k + 3)) ELSE 0)

\* the natural number the first n characters of s, all digits, write,
\* taken four digits at a time
RECURSIVE BigOfDigits(_, _)
BigOfDigits(s, n) ==
    IF n <= 4 THEN BigOfInt(Digits4(s, 1, n))
    ELSE BigAdd(BigMulSmall(BigOfDigits(s, n - 4), 10000),
                BigOfInt(Digits4(s, n - 3, 4)))

\* the int an unsigned long is stored into: its low 32 bits in two's
\* complement
IntOfBig(a) ==
    IF (Dig(a, 3) \div 2) % 2 = 1
    THEN ((Dig(a, 1) + 32768 * Dig(a, 2) + 1073741824 * (Dig(a, 3) % 2))
          - INT_MAX) - 1
    ELSE Dig(a, 1) + 32768 * Dig(a, 2) + 1073741824 * (Dig(a, 3) % 2)

\* the int of -x for the unsigned long x stored as the int i
IntNeg(i) == IF i = (0 - INT_MAX) - 1 THEN i ELSE 0 - i

\* the int that takes the unsigned long a read after a sign: a value of
\* 2^64 or more becomes ULONG_MAX with either sign, another value is negated
\* after a minus sign
UlongOfBig(minus, a) ==
    IF BigBitLen(a) > 64 THEN -1
    ELSE IF minus THEN IntNeg(IntOfBig(a))
    ELSE IntOfBig(a)

\* the same for the digits sig, which do not start with 0; more than 20 of
\* them write a number above 2^64
UlongToInt(minus, sig) ==
    IF Len(sig) > 20 THEN -1
    ELSE UlongOfBig(minus, BigOfDigits(sig, Len(sig)))

\* the conversion of a run of n digits after sign characters
Converted(sign, minus, digits, n) ==
    IF n = 0 THEN [val |-> 0, len |-> 0]
    ELSE [val |-> UlongToInt(minus,
                             SubSeq(digits, ZeroRun(digits, n) + 1, n)),
          len |-> sign + n]

\* int cnum = strtoul(str, &eptr, 10): an optional sign, then the digits,
\* converted as an unsigned long of 64 bits; val is what the int holds and
\* len the number of characters read, 0 when there is no digit (eptr == str)
strtoul(str) ==
    IF CharAt(str, 1) \in {"+", "-"}
    THEN Converted(1, CharAt(str, 1) = "-", Tail(str), DigitRun(Tail(str)))
    ELSE Converted(0, FALSE, str, DigitRun(str))

\* parse_banks, "Parse channel list", on the text str that is left; range
\* and last are those of the loop, nchan the count of channels added so
\* far, num what strtoul reads from str
RECURSIVE ParseList(_, _, _, _, _, _, _)
ParseItem(r, mem, bank_index, str, range, last, nchan, num) ==
    LET cnum == num.val
        from == IF range THEN last ELSE cnum - 1
        res == AddRange(r, mem, bank_index, from, cnum)
        added == IF cnum > from THEN cnum - from ELSE 0
        eptr == SubSeq(str, num.len + 1, Len(str))
    IN  IF num.len = 0
        THEN [ok |-> 0, mem |-> mem, halt |-> FALSE, nchan |-> nchan]
        ELSE IF cnum < 1 \/ cnum > NCHAN
        THEN [ok |-> 0, mem |-> mem, halt |-> FALSE, nchan |-> nchan]
        ELSE IF ~res.ok
        THEN [ok |-> 0, mem |-> res.mem, halt |-> TRUE, nchan |-> nchan]
        ELSE IF eptr = ""
        THEN [ok |-> 1, mem |-> res.mem, halt |-> FALSE,
              nchan |-> nchan + added]
        ELSE IF CharAt(eptr, 1) \notin {",", "-"}
        THEN [ok |-> 0, mem |-> res.mem, halt |-> FALSE,
              nchan |-> nchan + added]
        ELSE ParseList(r, res.mem, bank_index, Tail(eptr),
                       CharAt(eptr, 1) = "-", cnum, nchan + added)

ParseList(r, mem, bank_index, str, range, last, nchan) ==
    ParseItem(r, mem, bank_index, str, range, last, nchan, strtoul(str))

\* ft-60.c parse_banks; a row is [bank, list, ...].  The erase comes before
\* the list is looked at, and a list that starts with '-' is not read
ft60_parse_banks(mem, first_row, row) ==
    LET m1 == IF first_row
              THEN [mem EXCEPT !.banks = [b \in 0..(NBANKS - 1) |-> {}]]
              ELSE mem
        res == ParseList(FT60, m1, row.bank - 1, row.list, FALSE, 0, 0)
    IN  IF row.bank < 1 \/ row.bank > NBANKS THEN ParseFail(mem)
        ELSE IF CharAt(row.list, 1) = "-" THEN ParseOk(m1)
        ELSE [ok |-> res.ok, mem |-> res.mem, halt |-> FALSE]

\* vx-2.c parse_banks: a list that starts with '-' is not read; after
\* another list the count word of the bank is set to nchan - 1 and the
\* banks-unused markers are cleared
vx2_parse_banks(mem, first_row, row) ==
    LET m1 == IF first_row
              THEN [mem EXCEPT
                       !.banks = [b \in 0..(NBANKS - 1) |->
                                     [n \in 1..NSLOTS |-> FREE]],
                       !.bnchan = [b \in 0..(NBANKS - 1) |-> FREE],
                       !.buse = FREE]
              ELSE mem
        res == ParseList(VX2, m1, row.bank - 1, row.list, FALSE, 0, 0)
    IN  IF row.bank < 1 \/ row.bank > NBANKS THEN ParseFail(mem)
        ELSE IF CharAt(row.list, 1) = "-" THEN ParseOk(m1)
        ELSE IF res.ok = 0
        THEN [ok |-> 0, mem |-> res.mem, halt |-> res.halt]
        ELSE ParseOk([res.mem EXCEPT
                         !.bnchan[row.bank - 1] = (res.nchan - 1) % 65536,
                         !.buse = IF res.nchan > 0 THEN 0 ELSE @])

\* print_bank, the loop body over the channel numbers it visits: a number
\* that continues a run is held back, the end of a run is printed as -last
RECURSIVE PrintRuns(_, _, _, _, _)
PrintRuns(cnums, n, last, range, out) ==
    IF n > Len(cnums)
    THEN IF range THEN Append(out, [sep |-> "-", num |-> last]) ELSE out
    ELSE IF cnums[n] = last + 1
    THEN PrintRuns(cnums, n + 1, cnums[n], TRUE, out)
    ELSE PrintRuns(cnums, n + 1, cnums[n], FALSE,
             Append(IF range THEN Append(out, [sep |-> "-", num |-> last])
                    ELSE out,
                    [sep |-> IF n > 1 THEN "," ELSE "", num |-> cnums[n]]))

\* the channel numbers of a set of indices in ascending order, from index n
RECURSIVE Ascending(_, _)
Ascending(bank, n) ==
    IF n >= NCHAN THEN <<>>
    ELSE IF n \in bank THEN <<n + 1>> \o Ascending(bank, n + 1)
    ELSE Ascending(bank, n + 1)

\* ft-60.c print_bank: the list printed for bank i
ft60_print_bank(mem, i) ==
    [printed |-> TRUE,
     list |-> PrintRuns(Ascending(mem.banks[i], 0), 1, -1, FALSE, <<>>)]

\* vx-2.c print_bank: slots 0..nchan are printed, in slot order, when the
\* count word is below the number of slots; else there is no line
vx2_print_bank(mem, i) ==
    LET nchan == mem.bnchan[i]
    IN  IF nchan < NSLOTS
        THEN [printed |-> TRUE,
              list |-> PrintRuns([n \in 1..(nchan + 1) |-> 1 + mem.banks[i][n]],
                                 1, -1, FALSE, <<>>)]
        ELSE [printed |-> FALSE, list |-> <<>>]

print_bank(r, mem, i) ==
    IF r = FT60 THEN ft60_print_bank(mem, i) ELSE vx2_print_bank(mem, i)

\* fprintf "%d" of a number from 0 on
RECURSIVE fmt_d(_)
fmt_d(n) ==
    IF n < 10 THEN CharAt("0123456789", n + 1)
    ELSE fmt_d(n \div 10) \o CharAt("0123456789", (n % 10) + 1)

\* the text print_bank writes for a list of items
RECURSIVE ListText(_)
ListText(list) ==
    IF list = <<>> THEN ""
    ELSE ListText(SubSeq(list, 1, Len(list) - 1))
         \o list[Len(list)].sep \o fmt_d(list[Len(list)].num)

----------------------------------------------------------------------------
(* decode_channel.  seek names the region: "chan", "home", "vfo", "pms";    *)
(* junk holds what the table reads past the end of CTCSS_TONES and         *)
(* DCS_CODES yield.                                                        *)

\* what decode_channel returns before it reads the record
Unused ==
    [ name |-> <<>>, rx_hz |-> 0, tx_hz |-> 0, rx_ctcs |-> 0, tx_ctcs |-> 0,
      rx_dcs |-> 0, tx_dcs |-> 0, power |-> 0, wide |-> 0, scan |-> 0,
      isam |-> 0, amfm |-> 0, step |-> 0 ]

\* ft-60.c decode_channel: the transmit frequency of a record
ft60_tx_hz(ch) ==
    LET rx_hz == ft60_freq_to_hz(ch.rxfreq)
    IN  CASE ch.duplex = FT60_D_NEG_OFFSET -> rx_hz - ch.offset * 50000
          [] ch.duplex = FT60_D_POS_OFFSET -> rx_hz + ch.offset * 50000
          [] ch.duplex = D_CROSS_BAND -> ft60_freq_to_hz(ch.txfreq)
          [] OTHER -> rx_hz

\* ft-60.c decode_channel; the scan bits are taken from the byte of
\* OFFSET_SCAN as (scan_data << ((i & 3) * 2) >> 6) & 3, in int arithmetic
ft60_decode_channel_anyused(mem, i, seek, junk) ==
    LET ch == mem[seek][i]
        scan_data == mem.scan[i \div 4]
        sq == ft60_decode_squelch(ch.tmode, ch.tone, ch.dtcs, junk)
    IN  [ name |-> IF seek = "chan" THEN ft60_decode_name(mem.names[i])
                   ELSE <<>>,
          rx_hz |-> ft60_freq_to_hz(ch.rxfreq),
          tx_hz |-> ft60_tx_hz(ch),
          rx_ctcs |-> sq.rx_ctcs, tx_ctcs |-> sq.tx_ctcs,
          rx_dcs |-> sq.rx_dcs, tx_dcs |-> sq.tx_dcs,
          power |-> ch.power,
          wide |-> 1 - ch.isnarrow,
          scan |-> ((scan_data * Pow2((i % 4) * 2)) \div 64) % 4,
          isam |-> ch.isam,
          amfm |-> 0,
          step |-> ch.step ]

ft60_decode_channel(mem, i, seek, junk) ==
    LET ch == mem[seek][i]
        scan_data == mem.scan[i \div 4]
        sq == ft60_decode_squelch(ch.tmode, ch.tone, ch.dtcs, junk)
    IN  IF ch.used = 0 /\ seek \in {"chan", "pms"} THEN Unused
        ELSE [ name |-> IF seek = "chan" THEN ft60_decode_name(mem.names[i])
                        ELSE <<>>,
               rx_hz |-> ft60_freq_to_hz(ch.rxfreq),
               tx_hz |-> ft60_tx_hz(ch),
               rx_ctcs |-> sq.rx_ctcs, tx_ctcs |-> sq.tx_ctcs,
               rx_dcs |-> sq.rx_dcs, tx_dcs |-> sq.tx_dcs,
               power |-> ch.power,
               wide |-> 1 - ch.isnarrow,
               scan |-> ((scan_data * Pow2((i % 4) * 2)) \div 64) % 4,
               isam |-> ch.isam,
               amfm |-> 0,
               step |-> ch.step ]

\* a + b in the 32 bits of an int, for a and b from 0 to INT_MAX: a sum
\* above INT_MAX comes out 2^32 lower
int_add(a, b) ==
    IF a > INT_MAX - b THEN ((a - INT_MAX) - 1) + ((b - INT_MAX) - 1)
    ELSE a + b

\* vx-2.c decode_channel: the transmit frequency of a record.  Both terms
\* are ints of at most 1666665500 (bytes of 0xff), so *tx_hz += ... can
\* pass INT_MAX
vx2_tx_hz(ch) ==
    LET rx_hz == vx2_freq_to_hz(ch.rxfreq)
        off_hz == vx2_freq_to_hz(ch.offset)
    IN  CASE ch.duplex = VX2_D_NEG_OFFSET -> rx_hz - off_hz
          [] ch.duplex = VX2_D_POS_OFFSET -> int_add(rx_hz, off_hz)
          [] ch.duplex = D_DUPLEX -> off_hz
          [] OTHER -> rx_hz

\* vx-2.c decode_channel; the flags of a PMS record follow those of the
\* NCHAN channels
vx2_decode_channel(mem, i, seek, junk) ==
    LET ch == mem[seek][i]
        flags == get_flags(mem, i + (IF seek = "pms" THEN NCHAN ELSE 0))
        sq == vx2_decode_squelch(ch.tmode, ch.tone, ch.dcs, junk)
    IN  IF seek \in {"chan", "pms"} /\ GetBits(flags, 1, 1) = 0 THEN Unused
        ELSE [ name |-> IF seek = "chan" THEN vx2_decode_name(ch.name)
                        ELSE <<>>,
               rx_hz |-> vx2_freq_to_hz(ch.rxfreq),
               tx_hz |-> vx2_tx_hz(ch),
               rx_ctcs |-> sq.rx_ctcs, tx_ctcs |-> sq.tx_ctcs,
               rx_dcs |-> sq.rx_dcs, tx_dcs |-> sq.tx_dcs,
               power |-> ch.power,
               wide |-> 0,
               scan |-> IF GetBits(flags, 3, 1) = 1 THEN SCAN_PREFERENTIAL
                        ELSE IF GetBits(flags, 2, 1) = 1 THEN SCAN_SKIP
                        ELSE SCAN_NORMAL,
               isam |-> 0,
               amfm |-> IF ch.isnarrow = 1 THEN MOD_NFM ELSE ch.amfm,
               step |-> ch.step ]

decode_channel(r, mem, i, seek, junk) ==
    IF r = FT60 THEN ft60_decode_channel(mem, i, seek, junk)
    ELSE vx2_decode_channel(mem, i, seek, junk)

----------------------------------------------------------------------------
(* Import of text tables.  The reader of the configuration file (radio.c)  *)
(* hands every header line to parse_header and every row to parse_row of   *)
(* the driver with first_row set until a row of the table was accepted; a  *)
(* rejected row is reported and the import goes on with the next line.     *)

\* rows handed to parse_row in one import
MaxRows == 2

\* ft-60.c: a record with every bit set
FT60_FF ==
    [ duplex |-> 15, offset |-> 255, txfreq |-> <<255, 255, 255>>,
      rxfreq |-> <<255, 255, 255>>, used |-> 1, tmode |-> 7, tone |-> 63,
      dtcs |-> 127, power |-> 3, isnarrow |-> 1, isam |-> 1, step |-> 7 ]

\* the table regions of ft-60.c with rec in every place of a record
ft60_table_image(fill, rec) ==
    [ chan |-> [i \in 0..(NCHAN - 1) |-> rec],
      names |-> [i \in 0..(NCHAN - 1) |->
                    IF fill = "ones"
                    THEN [name |-> [n \in 1..6 |-> 255],
                          used |-> 1, valid |-> 1]
                    ELSE ft60_encode_name(<<"O", "L", "D">>)],
      scan |-> [b \in 0..((NCHAN - 1) \div 4) |->
                   IF fill = "ones" THEN 255 ELSE 102],
      home |-> [i \in 0..4 |-> rec],
      pms |-> [i \in 0..(2 * NPMS - 1) |-> rec],
      banks |-> [b \in 0..(NBANKS - 1) |->
                    IF fill = "ones" THEN 0..(NCHAN - 1) ELSE {0, 2}] ]

\* the table regions of vx-2.c with rec in every place of a record
vx2_table_image(fill, rec) ==
    [ chan |-> [i \in 0..(NCHAN - 1) |-> rec],
      flags |-> [i \in 0..(NCHAN + 2 * NPMS - 1) |->
                    IF fill = "ones" THEN 15
                    ELSE FLAG_VALID + FLAG_UNMASKED + FLAG_SKIP],
      home |-> [i \in 0..11 |-> rec],
      vfo |-> [i \in 0..11 |-> rec],
      pms |-> [i \in 0..(2 * NPMS - 1) |-> rec],
      banks |-> [b \in 0..(NBANKS - 1) |->
                    [n \in 1..NSLOTS |->
                        IF fill = "ones" THEN FREE
                        ELSE IF n = 1 THEN 0
                        ELSE IF n = 2 THEN 2 ELSE FREE]],
      bnchan |-> [b \in 0..(NBANKS - 1) |->
                     IF fill = "ones" THEN FREE ELSE 1],
      buse |-> IF fill = "ones" THEN FREE ELSE 0 ]

\* the channel on 145.000 MHz of a programmed image
OldRecord(r) ==
    IF r = FT60
    THEN ft60_setup_record(TextMhz(145000000), TextMhz(144400000),
                           T_TONE, 8, 0, 1, 1, 0)
    ELSE vx2_setup_record(<<"O", "L", "D">>, TextMhz(145000000),
                          TextMhz(144400000), T_TONE, 8, 0,
                          PWR_HIGH, MOD_FM, STEP_12_5)

\* the record in every place of an image
FillRecord(r, fill) ==
    IF fill = "ones" THEN (IF r = FT60 THEN FT60_FF ELSE VX2_FF)
    ELSE OldRecord(r)

\* images the import starts from.  "programmed": every record holds a
\* channel on 145.000 MHz named OLD and every bank holds channels 1 and 3.
\* "ones": every byte of the table regions is 0xff
TableImage(r, fill) ==
    IF r = FT60 THEN ft60_table_image(fill, FillRecord(r, fill))
    ELSE vx2_table_image(fill, FillRecord(r, fill))

Tone(v) == [k |-> "tone", v |-> v]

Dcs(v) == [k |-> "dcs", v |-> v]

Rel(hz) == [k |-> "rel", hz |-> hz]

Abs(hz) == [k |-> "abs", hz |-> hz]

\* Channel rows: three good rows on channels 1, 2 and NCHAN, two more good
\* rows for channel 2, rows whose labels are written in another case or
\* with text after the scan sign, and rows with one bad field each
ChannelRows(r) ==
    LET base == [ t |-> "C", num |-> 1, name |-> <<"A", "b">>,
                  rx |-> 146520000, off |-> Rel(600000),
                  rq |-> SqOff, tq |-> SqOff, power |-> "High",
                  mod |-> IF r = FT60 THEN "Wide" ELSE "FM", scan |-> "+" ]
        two == [base EXCEPT !.num = 2, !.name = <<"c", "_", "d">>,
                            !.off = Rel(0 - 600000), !.tq = Tone(885),
                            !.power = "Low", !.scan = "-"]
    IN  { base, two,
          [base EXCEPT !.num = NCHAN, !.name = <<"-">>, !.rx = 446000000,
                       !.off = Abs(146520000), !.rq = Tone(885),
                       !.tq = Tone(885), !.scan = "Only",
                       !.mod = IF r = FT60 THEN "Narrow" ELSE "NFM"],
          [base EXCEPT !.num = 2, !.off = Abs(146520000), !.rq = Dcs(23),
                       !.tq = Dcs(23),
                       !.power = IF r = FT60 THEN "Mid" ELSE "-"],
          [two EXCEPT !.rq = Tone(885), !.tq = SqOff],
          [base EXCEPT !.num = NCHAN, !.power = "hIGH", !.scan = "+1",
                       !.mod = IF r = FT60 THEN "narrow" ELSE "auto"],
          [two EXCEPT !.power = IF r = FT60 THEN "MID" ELSE "low",
                      !.mod = "am", !.scan = "-Only"],
          [base EXCEPT !.scan = "ONLY"],
          [base EXCEPT !.power = "Ultra"],
          [two EXCEPT !.power = "Med"],
          [base EXCEPT !.rq = Tone(700)],
          [two EXCEPT !.tq = Dcs(24)],
          [base EXCEPT !.num = 0],
          [two EXCEPT !.num = NCHAN + 1],
          [base EXCEPT !.rx = 100000],
          [base EXCEPT !.off = [k |-> "dash", hz |-> 0]],
          [base EXCEPT !.mod = "USB"],
          [two EXCEPT !.scan = "x"] }

\* Home rows; the band is 144 .. 850 on FT-60 and 1 .. 11 on VX-2
HomeRows(r) ==
    LET base == [ t |-> "H", band |-> IF r = FT60 THEN 144 ELSE 1,
                  rx |-> 146520000, off |-> Rel(600000),
                  rq |-> SqOff, tq |-> SqOff, step |-> "12.5",
                  power |-> "High",
                  mod |-> IF r = FT60 THEN "Wide" ELSE "FM" ]
    IN  { base,
          [base EXCEPT !.band = IF r = FT60 THEN 430 ELSE 7,
                       !.rx = 446000000, !.off = Rel(0 - 5000000),
                       !.tq = Tone(1000), !.power = "Low"],
          [base EXCEPT !.tq = Tone(700)],
          [base EXCEPT !.power = "LOW", !.mod = IF r = FT60 THEN "Am" ELSE "wfm"],
          [base EXCEPT !.power = "Ultra"],
          [base EXCEPT !.band = 0] }

\* VFO rows (vx-2.c only)
VfoRows(r) == {[h EXCEPT !.t = "V"] : h \in HomeRows(r)}

\* PMS rows
PmsRows(r) ==
    { [t |-> "P", num |-> 1, lower |-> 144000000, upper |-> 148000000],
      [t |-> "P", num |-> NPMS, lower |-> 430000000, upper |-> 440000000],
      [t |-> "P", num |-> 0, lower |-> 144000000, upper |-> 148000000],
      [t |-> "P", num |-> 1, lower |-> 144000000, upper |-> 100000] }

Item(sep, num) == [sep |-> sep, num |-> num]

\* the text "2,5-7,10" with its last number scaled to NCHAN
ExampleList == <<Item("", 2), Item(",", 5), Item("-", 7), Item(",", NCHAN)>>

ExampleText == ListText(ExampleList)

\* Bank rows: the example, "1", "3,2", "-", lists with signs, a list that
\* starts with '-', a number of 2^32 + 1, and lists that are malformed, out
\* of range, of 2^64 + 1, or too long for the slots of vx-2.c
BankRows(r) ==
    { [t |-> "B", bank |-> 1, list |-> ExampleText],
      [t |-> "B", bank |-> NBANKS, list |-> "1"],
      [t |-> "B", bank |-> 1, list |-> "3,2"],
      [t |-> "B", bank |-> 1, list |-> "-"],
      [t |-> "B", bank |-> NBANKS, list |-> "-3"],
      [t |-> "B", bank |-> 1, list |-> "+1,+3"],
      [t |-> "B", bank |-> NBANKS, list |-> "4294967297"],
      [t |-> "B", bank |-> 1, list |-> "4,"],
      [t |-> "B", bank |-> 1, list |-> "2,3x"],
      [t |-> "B", bank |-> 1, list |-> "2,-3"],
      [t |-> "B", bank |-> 1, list |-> "18446744073709551617"],
      [t |-> "B", bank |-> NBANKS, list |-> "4," \o fmt_d(NCHAN + 1)],
      [t |-> "B", bank |-> NBANKS + 1, list |-> "1"],
      [t |-> "B", bank |-> 1, list |-> "1-" \o fmt_d(NCHAN)] }

\* no row has been handed to parse_row
NoRow == [t |-> "none"]

\* parse_header: the table kinds of the driver
Tables(r) == IF r = FT60 THEN {"C", "H", "P", "B"} ELSE {"C", "H", "V", "P", "B"}

\* parse_row: the parser of the table kind
parse_row(r, table_id, mem, first_row, row) ==
    CASE table_id = "C" -> IF r = FT60 THEN ft60_parse_channel(mem, first_row, row)
                           ELSE vx2_parse_channel(mem, first_row, row)
      [] table_id = "H" -> IF r = FT60 THEN ft60_parse_home(mem, first_row, row)
                           ELSE vx2_parse_home(mem, first_row, row)
      [] table_id = "V" -> vx2_parse_vfo(mem, first_row, row)
      [] table_id = "P" -> IF r = FT60 THEN ft60_parse_pms(mem, first_row, row)
                           ELSE vx2_parse_pms(mem, first_row, row)
      [] table_id = "B" -> IF r = FT60 THEN ft60_parse_banks(mem, first_row, row)
                           ELSE vx2_parse_banks(mem, first_row, row)

\* the 0-based indices of the records a row names in the region of its table
RecordsOf(r, row) ==
    CASE row.t = "C" -> {row.num - 1}
      [] row.t \in {"H", "V"} ->
             {IF r = FT60 THEN ft60_home_index(row.band)
              ELSE vx2_band_index(row.band)}
      [] row.t = "P" -> {2 * row.num - 2, 2 * row.num - 1}
      [] row.t = "B" -> {row.bank - 1}

\* the import starts on an image, before the first header line; cv holds the
\* reader's table_id and dirty flag, the last row handed to parse_row with
\* its first_row argument and its result, the records named by the accepted
\* rows of the current table
ImportInit ==
    /\ radio \in Radios
    /\ pc = "import"
    /\ \E fill \in {"programmed", "ones"} : radio_mem = TableImage(radio, fill)
    /\ TransferIdle
    /\ cv = [mode |-> "import", table |-> "none", dirty |-> FALSE, nrows |-> 0,
             row |-> NoRow, first |-> FALSE, res |-> -1, named |-> {}]

\* a header line: parse_header gives the table kind; no row of it was
\* accepted yet
ParseHeader ==
    /\ pc = "import" /\ cv.nrows < MaxRows
    /\ \E t \in Tables(radio) \ {cv.table} :
           cv' = [cv EXCEPT !.table = t, !.dirty = FALSE, !.row = NoRow,
                            !.first = FALSE, !.res = -1, !.named = {}]
    /\ UNCHANGED <<radio, pc, radio_mem, transfer>>

\* a row of the current table: parse_row(table_id, first_row, line); exit()
\* inside the parser ends the process
ParseRow(table_id, row) ==
    /\ pc = "import" /\ cv.table = table_id /\ cv.nrows < MaxRows
    /\ \E first_row \in {~cv.dirty} :
       \E res \in {parse_row(radio, table_id, radio_mem, first_row, row)} :
        /\ radio_mem' = res.mem
        /\ pc' = IF res.halt THEN "exit" ELSE pc
        /\ cv' = [cv EXCEPT !.dirty = cv.dirty \/ res.ok = 1,
                            !.nrows = cv.nrows + 1, !.row = row,
                            !.first = first_row, !.res = res.ok,
                            !.named = IF res.ok = 1
                                      THEN cv.named \cup RecordsOf(radio, row)
                                      ELSE cv.named]
        /\ UNCHANGED <<radio, transfer>>

ParseChannel == \E row \in ChannelRows(radio) : ParseRow("C", row)

ParseHome == \E row \in HomeRows(radio) : ParseRow("H", row)

ParseVfo == \E row \in VfoRows(radio) : ParseRow("V", row)

ParsePms == \E row \in PmsRows(radio) : ParseRow("P", row)

ParseBanks == \E row \in BankRows(radio) : ParseRow("B", row)

ImportNext ==
    \/ ParseHeader
    \/ ParseChannel
    \/ ParseHome
    \/ ParseVfo
    \/ ParsePms
    \/ ParseBanks

ImportSpec == ImportInit /\ [][ImportNext]_vars

----------------------------------------------------------------------------
(* Bank lists.  The first Bank row of a table, with a list drawn from a    *)
(* bounded set, possibly a second row, and print_bank on the bank of the   *)
(* last row.  cv.rows holds the rows handed to parse_banks so far.         *)

\* items in a list of the first row
MaxItems == 3

\* the channel numbers of the lists
BankNums == {1, 2, 3, 5, NCHAN}

\* the lists of n items over BankNums with "," and "-" between them
RECURSIVE ListsOfLen(_)
ListsOfLen(n) ==
    IF n = 1 THEN {<<Item("", c)>> : c \in BankNums}
    ELSE {Append(l, Item(s, c)) :
             l \in ListsOfLen(n - 1), s \in {",", "-"}, c \in BankNums}

\* the first row names bank 1; its list is "-", the example, or a list of
\* up to MaxItems items
FirstBankRows ==
    {[t |-> "B", bank |-> 1, list |-> text] :
        text \in {"-", ExampleText}
                 \cup {ListText(l) : l \in UNION {ListsOfLen(n) : n \in 1..MaxItems}}}

\* what print_bank has not printed yet
NoPrint == [printed |-> FALSE, list |-> <<>>, bank |-> -1]

BankInit ==
    /\ radio \in Radios
    /\ pc = "import"
    /\ \E fill \in {"programmed", "ones"} : radio_mem = TableImage(radio, fill)
    /\ TransferIdle
    /\ cv = [mode |-> "bank", nrows |-> 0, row |-> NoRow, first |-> FALSE,
             res |-> -1, rows |-> <<>>, out |-> NoPrint]

\* parse_banks on a row; first_row is set for the first row of the table
ParseBankRow(row) ==
    /\ pc = "import" /\ cv.mode = "bank" /\ cv.out = NoPrint
    /\ \E first_row \in {cv.nrows = 0} :
       \E res \in {parse_row(radio, "B", radio_mem, first_row, row)} :
        /\ radio_mem' = res.mem
        /\ pc' = IF res.halt THEN "exit" ELSE pc
        /\ cv' = [cv EXCEPT !.nrows = cv.nrows + 1, !.row = row,
                            !.first = first_row, !.res = res.ok,
                            !.rows = Append(cv.rows, row)]
        /\ UNCHANGED <<radio, transfer>>

BankFirst == cv.nrows = 0 /\ \E row \in FirstBankRows : ParseBankRow(row)

\* a second row follows an accepted first row
BankSecond ==
    /\ cv.nrows = 1 /\ cv.res = 1
    /\ \E row \in BankRows(radio) : ParseBankRow(row)

\* print_bank on the bank of the last accepted row
BankPrint ==
    /\ pc = "import" /\ cv.mode = "bank" /\ cv.res = 1 /\ cv.out = NoPrint
    /\ LET p == print_bank(radio, radio_mem, cv.row.bank - 1)
       IN  cv' = [cv EXCEPT !.out = [printed |-> p.printed, list |-> p.list,
                                     bank |-> cv.row.bank]]
    /\ UNCHANGED <<radio, pc, radio_mem, transfer>>

BankNext == BankFirst \/ BankSecond \/ BankPrint

BankSpec == BankInit /\ [][BankNext]_vars

----------------------------------------------------------------------------
(* decode_channel on records of any content.  A record drawn from a        *)
(* bounded set is put into a region of an image, with its used bit or      *)
(* flags nibble, and decode_channel is applied to it.  The records on      *)
(* which decode_channel reads a table have their index inside the table,   *)
(* so that every call has one result.                                      *)

\* the records setup_channel writes for 146.520 MHz with +600 kHz, -600 kHz,
\* no offset and, with each other value of the power field, a transmit
\* frequency on another band, and a record of 0xff
DecodeBases(r) ==
    IF r = FT60
    THEN { ft60_setup_record(TextMhz(146520000), TextMhz(146520000 + d),
                             T_OFF, TONE_DEFAULT, 0, 0, 1, 0) : d \in {600000, 0 - 600000, 0} }
         \cup { ft60_setup_record(TextMhz(446000000), TextMhz(146520000), T_TSQL,
                                  8, 0, p, 0, 0) :
                    p \in 1..3 }
         \cup { FT60_FF }
    ELSE { vx2_setup_record(<<"A", "b">>, TextMhz(146520000),
                            TextMhz(146520000 + d), T_OFF, TONE_DEFAULT, 0,
                            PWR_HIGH, MOD_FM, STEP_12_5) :
               d \in {600000, 0 - 600000, 0} }
         \cup { vx2_setup_record(<<"c">>, TextMhz(446000000), TextMhz(146520000),
                                 T_TSQL, 8, 0, p, MOD_AM, STEP_5) : p \in 1..3 }
         \cup { VX2_FF }

\* the values of the duplex and tmode fields, and tone indices in and out of
\* the table
DuplexCodes(r) == IF r = FT60 THEN {0, 1, 2, 3, 4, 15} ELSE 0..3

TmodeCodes(r) == IF r = FT60 THEN 0..7 ELSE 0..3

ToneCodes == {8, TONE_DEFAULT, 63}

DecodeRecords(r) ==
    {[b EXCEPT !.duplex = d, !.tmode = m, !.tone = t] :
        b \in DecodeBases(r), d \in DuplexCodes(r), m \in TmodeCodes(r),
        t \in ToneCodes}

\* the flags nibbles of a VX-2 channel
FlagCodes == {0, FLAG_UNMASKED, FLAG_VALID, FLAG_UNMASKED + FLAG_SKIP, 13, 15}

\* the image mem with record rec in place i of a region; used is the used bit
\* of the FT-60 record, flags the nibble of a VX-2 channel or PMS entry
DecodeImage(r, mem, seek, i, rec, used, flags) ==
    IF r = FT60
    THEN [mem EXCEPT ![seek][i] = [rec EXCEPT !.used = used]]
    ELSE IF seek \in {"chan", "pms"}
    THEN set_flags([mem EXCEPT ![seek][i] = rec],
                   i + (IF seek = "pms" THEN NCHAN ELSE 0), flags)
    ELSE [mem EXCEPT ![seek][i] = rec]

NoOutput == [name |-> <<>>]

\* the squelch modes in which decode_channel reads CTCSS_TONES[ch->tone]
\* and those in which it reads DCS_CODES[ch->dtcs]
ReadsTone(r) ==
    IF r = FT60 THEN {T_TONE, T_TSQL, T_TSQL_REV, T_T_DCS, T_D_TSQL}
    ELSE {T_TONE, T_TSQL}

ReadsDcs(r) ==
    IF r = FT60 THEN {T_DTCS, T_D, T_T_DCS, T_D_TSQL} ELSE {VX2_T_DTCS}

\* the table reads decode_channel makes on a record stay inside the tables
InTables(r, rec) ==
    /\ rec.tmode \in ReadsTone(r) => rec.tone < NCTCSS
    /\ rec.tmode \in ReadsDcs(r)
           => (IF r = FT60 THEN rec.dtcs ELSE rec.dcs) < NDCS

\* decode_channel returns before it reads the record: a memory channel or
\* PMS entry with the used bit (FT-60) or the VALID flag (VX-2) clear
Skipped(r, seek, used, flags) ==
    /\ seek \in {"chan", "pms"}
    /\ IF r = FT60 THEN used = 0 ELSE GetBits(flags, 1, 1) = 0

DecodeInit ==
    /\ radio \in Radios
    /\ pc = "codec"
    /\ TransferIdle
    /\ \E mem \in {TableImage(radio, fill) : fill \in {"programmed", "ones"}},
          seek \in {"chan", "pms", "home"},
          rec \in DecodeRecords(radio),
          used \in {0, 1},
          flags \in FlagCodes :
           \E i \in IF seek = "chan" THEN {0, NCHAN - 1} ELSE {1} :
               /\ radio = FT60 => flags = 0
               /\ (radio = VX2 \/ seek = "home") => used = 1
               /\ (radio = VX2 /\ seek = "home") => flags = 0
               /\ Skipped(radio, seek, used, flags) \/ InTables(radio, rec)
               /\ radio_mem = DecodeImage(radio, mem, seek, i, rec, used, flags)
               /\ cv = [mode |-> "decode", step |-> 0, seek |-> seek, i |-> i,
                        out |-> NoOutput, label |-> "", power |-> -1]

\* decode_channel(i, seek, ...)
DecodeChannel ==
    /\ pc = "codec" /\ cv.mode = "decode" /\ cv.step = 0
    /\ \E junk \in Junk :
           cv' = [cv EXCEPT
                     !.out = decode_channel(radio, radio_mem, cv.i, cv.seek,
                                            junk),
                     !.step = 1]
    /\ UNCHANGED <<radio, pc, radio_mem, transfer>>

\* the power labels of print_config, by power level
POWER_NAME(r) ==
    IF r = FT60 THEN <<"High", "Med", "Low", "??">>
    ELSE <<"High", "Low", "High", "Low">>

\* print_config on a memory channel: a channel that decodes with rx_hz = 0
\* is skipped, for any other the power column is POWER_NAME[power]
PrintPower ==
    /\ pc = "codec" /\ cv.mode = "decode" /\ cv.step = 1
    /\ cv.seek = "chan" /\ cv.out.rx_hz # 0
    /\ cv' = [cv EXCEPT !.label = POWER_NAME(radio)[cv.out.power + 1],
                        !.step = 2]
    /\ UNCHANGED <<radio, pc, radio_mem, transfer>>

\* parse_channel on the power column of that row
ParsePower ==
    /\ pc = "codec" /\ cv.mode = "decode" /\ cv.step = 2
    /\ cv' = [cv EXCEPT !.power = power_code(radio, cv.label), !.step = 3]
    /\ UNCHANGED <<radio, pc, radio_mem, transfer>>

DecodeNext == DecodeChannel \/ PrintPower \/ ParsePower

DecodeSpec == DecodeInit /\ [][DecodeNext]_vars
----------------------------------------------------------------------------
(* The "Virtual Jumpers" line of the VX-2 configuration: print_config      *)
(* writes it from the image, parse_parameter reads it back.  radio_mem is  *)
(* the image bytes 6..13, where the jumper bytes live.  The value of the   *)
(* line is the sequence of its fields, the runs of characters between      *)
(* white space; a field is a sequence of one-character strings.            *)

HexDigits == <<"0", "1", "2", "3", "4", "5", "6", "7", "8", "9", "a", "b", "c", "d", "e", "f">>

HexCapitals == <<"0", "1", "2", "3", "4", "5", "6", "7", "8", "9", "A", "B", "C", "D", "E", "F">>

\* printf "%02x" of an unsigned char
fmt_02x(b) == <<HexDigits[(b \div 16) + 1], HexDigits[(b % 16) + 1]>>

\* value of one hexadecimal digit, -1 for another character
hex_value(c) ==
    IF \E k \in 1..16 : HexDigits[k] = c
    THEN (CHOOSE k \in 1..16 : HexDigits[k] = c) - 1
    ELSE IF \E k \in 1..16 : HexCapitals[k] = c
    THEN (CHOOSE k \in 1..16 : HexCapitals[k] = c) - 1
    ELSE -1

\* number of hexadecimal digits a text starts with
HexRun(s) ==
    CHOOSE n \in 0..Len(s) :
        /\ \A k \in 1..n : hex_value(s[k]) >= 0
        /\ n = Len(s) \/ hex_value(s[n + 1]) < 0

\* the digits of a run without its leading zeros
Significant(digits) ==
    LET nz == {k \in 1..Len(digits) : digits[k] # "0"}
    IN  IF nz = {} THEN <<>>
        ELSE SubSeq(digits, CHOOSE k \in nz : \A j \in nz : k <= j, Len(digits))

\* value of a run of hexadecimal digits, modulo 256: its last two digits
hex_number(digits) ==
    LET n == Len(digits)
    IN  (IF n >= 2 THEN 16 * hex_value(digits[n - 1]) ELSE 0)
        + (IF n >= 1 THEN hex_value(digits[n]) ELSE 0)

\* sscanf "%x" at the start of a field: an optional sign, an optional 0x or
\* 0X, then the digits; rest is what the conversion leaves unread.  Without
\* 0x at least one digit is needed; 0x with no digit after it converts to 0.
\* The digits are converted as an unsigned long: a value of 2^64 or more
\* (more than 16 significant digits) becomes ULONG_MAX with either sign,
\* another value is negated after a minus sign.  val is the int stored,
\* modulo 256
scan_x(field) ==
    LET signed == field # <<>> /\ field[1] \in {"+", "-"}
        body == IF signed THEN Tail(field) ELSE field
        prefixed == Len(body) >= 2 /\ body[1] = "0" /\ body[2] \in {"x", "X"}
        digits == IF prefixed THEN SubSeq(body, 3, Len(body)) ELSE body
        n == HexRun(digits)
        run == SubSeq(digits, 1, n)
        val == hex_number(run)
    IN  [ok |-> prefixed \/ n > 0,
         val |-> IF Len(Significant(run)) > 16 THEN 255
                 ELSE IF signed /\ field[1] = "-" THEN (256 - val) % 256
                 ELSE val,
         rest |-> SubSeq(digits, n + 1, Len(digits))]

\* sscanf "%x %x ...": the values of the conversions that succeed, at most
\* want of them; a conversion starts where the one before it stopped
RECURSIVE scan_fields(_, _)
scan_fields(fields, want) ==
    IF want = 0 \/ fields = <<>> THEN <<>>
    ELSE LET r == scan_x(Head(fields))
         IN  IF ~r.ok THEN <<>>
             ELSE <<r.val>> \o scan_fields(IF r.rest = <<>> THEN Tail(fields)
                                           ELSE <<r.rest>> \o Tail(fields),
                                           want - 1)

\* vx-2.c: the line print_config writes, as its four fields
vx2_print_jumpers(mem) == <<fmt_02x(mem[6]), fmt_02x(mem[7]), fmt_02x(mem[8]), fmt_02x(mem[13])>>

\* vx-2.c: parse_parameter("Virtual Jumpers", value); the ints are stored
\* into unsigned chars
vx2_parse_jumpers(mem, value) ==
    LET v == scan_fields(value, 4)
    IN  IF Len(v) # 4 THEN mem
        ELSE [mem EXCEPT ![10] = v[1] % 256, ![11] = v[2] % 256,
                         ![12] = v[3] % 256, ![13] = v[4] % 256]

\* contents of a jumper byte in the images tried
JumperBytes == {0, 31, 255}

\* the character c, n times
Repeated(c, n) == [k \in 1..n |-> c]

\* lines a user may write: five fields, capitals, 0x, a sign, values above
\* 0xff, three fields, a field that is no number, a number followed by text,
\* values of 2^64 and more
JumperLines ==
    { <<<<"0", "0">>, <<"1", "f">>, <<"f", "f">>, <<"0", "a">>, <<"0", "7">>>>,
      <<<<"F", "F">>, <<"1", "F">>, <<"a", "B">>, <<"0", "a">>>>,
      <<<<"0", "x", "1", "f">>, <<"0">>, <<"0">>, <<"0", "X">>>>,
      <<<<"-", "1">>, <<"+", "2">>, <<"1", "0", "0">>, <<"1", "f", "f">>>>,
      <<<<"1">>, <<"2">>, <<"3">>>>,
      <<<<"g">>, <<"1">>, <<"2">>, <<"3">>>>,
      <<<<"1", "g">>, <<"2">>, <<"3">>, <<"4">>>>,
      <<<<"0">>, <<"0">>, <<"0">>, <<"1", "g">>>>,
      << <<"1">> \o Repeated("0", 16), <<"-", "1">> \o Repeated("0", 16),
         Repeated("0", 18) \o <<"a", "b">>, Repeated("f", 16) >> }

JumperInit ==
    /\ radio = VX2
    /\ pc = "codec"
    /\ radio_mem \in [6..13 -> JumperBytes]
    /\ TransferIdle
    /\ cv = [mode |-> "jumper", step |-> 0, line |-> <<>>, printed |-> FALSE,
             before |-> radio_mem]

\* vx2_print_config: the "Virtual Jumpers" line
PrintJumpers ==
    /\ pc = "codec" /\ cv.mode = "jumper" /\ cv.step = 0
    /\ cv' = [cv EXCEPT !.line = vx2_print_jumpers(radio_mem),
                        !.printed = TRUE, !.step = 1]
    /\ UNCHANGED <<radio, pc, radio_mem, transfer>>

\* the configuration file holds a line somebody wrote
WriteJumpers ==
    /\ pc = "codec" /\ cv.mode = "jumper" /\ cv.step = 0
    /\ \E line \in JumperLines : cv' = [cv EXCEPT !.line = line, !.step = 1]
    /\ UNCHANGED <<radio, pc, radio_mem, transfer>>

\* vx2_parse_parameter on the line
ParseJumpers ==
    /\ pc = "codec" /\ cv.mode = "jumper" /\ cv.step = 1
    /\ radio_mem' = vx2_parse_jumpers(radio_mem, cv.line)
    /\ cv' = [cv EXCEPT !.step = 2]
    /\ UNCHANGED <<radio, pc, transfer>>

JumperNext == PrintJumpers \/ WriteJumpers \/ ParseJumpers

JumperSpec == JumperInit /\ [][JumperNext]_vars
----------------------------------------------------------------------------
(* The transmit offset of an FT-60 channel: setup_channel stores it in the *)
(* 8-bit offset field of the record, decode_channel reads it back.         *)

\* magnitudes of the offsets tried, in Hz: every 10 kHz below 12.8 MHz
OffsetsTried == {10000 * k : k \in 1..1279}

OffsetInit ==
    /\ radio = FT60
    /\ pc = "codec"
    /\ radio_mem = TableImage(FT60, "programmed")
    /\ TransferIdle
    /\ \E rx_hz \in {146000000, 446000000}, off \in OffsetsTried, sign \in {-1, 1} :
           cv = [mode |-> "offset", step |-> 0, rx_hz |-> rx_hz,
                 tx_hz |-> rx_hz + sign * off, out |-> Unused]

\* setup_channel for channel 1 with the requested frequencies
SetupOffset ==
    /\ pc = "codec" /\ cv.mode = "offset" /\ cv.step = 0
    /\ radio_mem' = ft60_setup_channel(radio_mem, 0, <<>>, TextMhz(cv.rx_hz),
                                       TextMhz(cv.tx_hz), T_OFF, TONE_DEFAULT, 0, 0, 1, 0, 0)
    /\ cv' = [cv EXCEPT !.step = 1]
    /\ UNCHANGED <<radio, pc, transfer>>

\* decode_channel of channel 1
DecodeOffset ==
    /\ pc = "codec" /\ cv.mode = "offset" /\ cv.step = 1
    /\ cv' = [cv EXCEPT !.out = ft60_decode_channel(radio_mem, 0, "chan", NoJunk),
                        !.step = 2]
    /\ UNCHANGED <<radio, pc, radio_mem, transfer>>

OffsetNext == SetupOffset \/ DecodeOffset

OffsetSpec == OffsetInit /\ [][OffsetNext]_vars

----------------------------------------------------------------------------
(* Two rows of one table, imported in both orders.  radio_mem takes the    *)
(* rows in the order written, cv.alt takes them in the other order; in     *)
(* each order the row that comes first is parsed with first_row = 1.       *)

\* the rows of a table kind
RowsOf(r, table_id) ==
    CASE table_id = "C" -> ChannelRows(r)
      [] table_id = "P" -> PmsRows(r)
      [] table_id = "B" -> BankRows(r)

OrderInit ==
    /\ radio \in Radios
    /\ pc = "import"
    /\ \E fill \in {"programmed", "ones"} : radio_mem = TableImage(radio, fill)
    /\ TransferIdle
    /\ \E table_id \in {"C", "P", "B"} :
           \E r1 \in RowsOf(radio, table_id), r2 \in RowsOf(radio, table_id) :
               cv = [mode |-> "order", table |-> table_id, rows |-> <<r1, r2>>,
                     step |-> 0, alt |-> radio_mem, ok |-> TRUE]

\* parse_row on the k-th row of the one order and of the other
OrderRow(k) ==
    /\ pc = "import" /\ cv.mode = "order" /\ cv.step = k - 1
    /\ \E fwd \in {parse_row(radio, cv.table, radio_mem, k = 1, cv.rows[k])},
          bwd \in {parse_row(radio, cv.table, cv.alt, k = 1, cv.rows[3 - k])} :
        /\ radio_mem' = fwd.mem
        /\ pc' = IF fwd.halt \/ bwd.halt THEN "exit" ELSE pc
        /\ cv' = [cv EXCEPT !.step = k, !.alt = bwd.mem,
                            !.ok = cv.ok /\ fwd.ok = 1 /\ bwd.ok = 1]
        /\ UNCHANGED <<radio, transfer>>

OrderFirst == OrderRow(1)

OrderSecond == OrderRow(2)

OrderNext == OrderFirst \/ OrderSecond

OrderSpec == OrderInit /\ [][OrderNext]_vars
----------------------------------------------------------------------------
(* Download on its own, with progress.  The program is sequential and      *)
(* every serial_read returns, with the bytes or after its timeout: while   *)
(* the download has a step to take it takes one.  What the device sends    *)
(* is not constrained.                                                     *)

DlNext ==
    \/ StartDownload
    \/ DlPoll
    \/ DlShortRead
    \/ DlAckFail
    \/ DlChunk
    \/ DlVerifyOk
    \/ DlVerifyBad

DownloadSpec == Init /\ [][DlNext]_vars /\ WF_vars(DlNext)

----------------------------------------------------------------------------
(* Properties of the squelch codec, checked under SquelchSpec. *)

\* a text the tables resolve: "-", a CTCSS tone of the table, a DCS code of
\* the table, and on FT-60 a negated tone of the table as receive text
WellFormedSq(r, t, isrx) ==
    \/ t.k = "off"
    \/ t.k = "tone" /\ encode_tone(t.v) >= 0
    \/ t.k = "dcs" /\ encode_dcs(t.v) >= 0
    \/ t.k = "rev" /\ isrx /\ r = FT60 /\ encode_tone(t.v) >= 0

\* the selection a pair of texts asks for, in the terms of decode_channel
Selection(rx, t) ==
    [rx_ctcs |-> IF rx.k = "tone" THEN rx.v
                 ELSE IF rx.k = "rev" THEN 0 - rx.v ELSE 0,
     tx_ctcs |-> IF t.k = "tone" THEN t.v ELSE 0,
     rx_dcs |-> IF rx.k = "dcs" THEN rx.v ELSE 0,
     tx_dcs |-> IF t.k = "dcs" THEN t.v ELSE 0]

\* the pairs a record can hold: one tone index and one DCS index are shared
\* by both directions
Representable(r, rx, t) ==
    IF r = FT60
    THEN \/ rx.k = "off"
         \/ rx.k \in {"tone", "rev"} /\ t.k = "tone" /\ t.v = rx.v
         \/ rx.k = "tone" /\ t.k = "dcs"
         \/ rx.k = "dcs" /\ t.k = "tone"
         \/ rx.k = "dcs" /\ t.k = "dcs" /\ t.v = rx.v
    ELSE \/ rx.k = "off" /\ t.k \in {"off", "tone"}
         \/ rx.k = "tone" /\ t.k = "tone" /\ t.v = rx.v
         \/ rx.k = "dcs" /\ t.k = "dcs" /\ t.v = rx.v

\* C11 as stated: for every well-formed pair of squelch texts, encode_squelch
\* followed by the squelch decoding of decode_channel gives back the receive
\* and the transmit selection of the pair, with the same sign
C11_SquelchRoundTrip ==
    (cv.mode = "squelch" /\ cv.step = 2
        /\ WellFormedSq(radio, cv.rx, TRUE) /\ WellFormedSq(radio, cv.tx, FALSE))
    => cv.dec = Selection(cv.rx, cv.tx)

\* C11 amended: for a well-formed pair, encode_squelch followed by the
\* squelch decoding gives back the selection of the pair exactly when the
\* pair is one the model's squelch modes can hold
C11_SquelchRoundTripRepresentable ==
    (cv.mode = "squelch" /\ cv.step = 2
        /\ WellFormedSq(radio, cv.rx, TRUE) /\ WellFormedSq(radio, cv.tx, FALSE))
    => (cv.dec = Selection(cv.rx, cv.tx)
            <=> Representable(radio, cv.rx, cv.tx))

\* an FT-60 pair with a negated receive tone came back with its sign
C11_Witness ==
    /\ radio = FT60
    /\ cv.mode = "squelch" /\ cv.step = 2
    /\ cv.rx = [k |-> "rev", v |-> 885] /\ cv.tx = [k |-> "tone", v |-> 885]
    /\ cv.enc.tmode = T_TSQL_REV
    /\ cv.dec.rx_ctcs = 0 - 885 /\ cv.dec.tx_ctcs = 885

(***************************************************************************)
(* C12.  Rows with a tone or D-code that the code table does not hold.     *)
(***************************************************************************)

\* a squelch field that is a numeric tone or a D-code absent from the tables
UnknownCode(t) ==
    \/ t.k \in {"tone", "rev"} /\ Lookup(CTCSS_TONES, t.v) < 0
    \/ t.k = "dcs" /\ Lookup(DCS_CODES, t.v) < 0

\* the last row handed to parse_row is a Channel, Home or VFO row with such
\* a field
UnknownCodeRow(c) ==
    /\ c.mode = "import"
    /\ c.row.t \in {"C", "H", "V"}
    /\ UnknownCode(c.row.rq) \/ UnknownCode(c.row.tq)

\* C12: a Channel, Home or VFO row whose receive or transmit squelch field is
\* a tone or D-code that the CTCSS/DCS table does not hold is rejected
\* (parse_row returns 0) and is not written into the image.
C12_UnknownCodeRejected ==
    /\ [](UnknownCodeRow(cv) => cv.res = 0)
    /\ [][(cv'.nrows = cv.nrows + 1 /\ UnknownCodeRow(cv'))
              => radio_mem' = radio_mem]_vars

(***************************************************************************)
(* C13.  The channels a Bank row puts into its bank.                       *)
(***************************************************************************)

\* the items of a list text: its numbers, each with the character in front
\* of it, sep for the first; -1 stands where a number is missing and INT_MAX
\* for a number of more than nine digits
RECURSIVE ItemsOf(_, _)
ItemsOf(text, sep) ==
    LET n == DigitRun(text)
        item == [sep |-> sep,
                 num |-> IF n = 0 THEN -1
                         ELSE IF n > 9 THEN INT_MAX
                         ELSE BigToInt(BigOfDigits(text, n))]
    IN  IF n >= Len(text) THEN <<item>>
        ELSE <<item>> \o ItemsOf(SubSeq(text, n + 2, Len(text)),
                                 CharAt(text, n + 1))

\* the list a text writes; "-" writes the list without channels
ListOf(text) == IF text = "-" THEN <<>> ELSE ItemsOf(text, "")

\* a list of numbers and inclusive ranges N-M over the channels 1..NCHAN
WellFormedList(list) ==
    /\ list # <<>>
    /\ \A k \in 1..Len(list) :
           /\ list[k].num \in 1..NCHAN
           /\ list[k].sep = (IF k = 1 THEN "" ELSE list[k].sep)
           /\ k > 1 => list[k].sep \in {",", "-"}
           /\ (k > 1 /\ list[k].sep = "-")
                  => (list[k - 1].sep # "-" /\ list[k - 1].num <= list[k].num)

\* the channel numbers a list denotes
Denotes(list) ==
    UNION {IF list[k].sep = "-" THEN list[k - 1].num .. list[k].num
           ELSE {list[k].num} : k \in 1..Len(list)}

\* the slots of a VX-2 bank that are free
FreeSlots(mem, b) == {n \in 1..NSLOTS : mem.banks[b][n] = FREE}

\* the channel numbers a bank of the image contains: the set bits on
\* FT-60, the slots that are not free on VX-2
Members(r, mem, b) ==
    IF r = FT60 THEN {i + 1 : i \in mem.banks[b]}
    ELSE {mem.banks[b][n] + 1 : n \in (1..NSLOTS) \ FreeSlots(mem, b)}

\* a step of parse_banks on a row with a well-formed list for a bank 1..NBANKS
BankRowStep ==
    /\ cv'.mode = "bank" /\ cv'.nrows = cv.nrows + 1
    /\ cv'.row.bank \in 1..NBANKS
    /\ WellFormedList(ListOf(cv'.row.list))

\* C13: parsing a Bank row whose list is a comma-separated sequence of
\* numbers and inclusive ranges N-M makes the bank hold exactly the channels
\* in the union of the numbers and ranges, and no other channel.
C13_BankHoldsUnion ==
    [][BankRowStep
           => Members(radio, radio_mem', cv'.row.bank - 1)
                  = Denotes(ListOf(cv'.row.list))]_vars

(***************************************************************************)
(* C14.  print_bank on the image parse_banks produced.                     *)
(***************************************************************************)

\* a list with ascending numbers in which every maximal run of two or more
\* consecutive channels is written N-M
Compressed(list) ==
    \A k \in 1..Len(list) :
        /\ list[k].num >= 1
        /\ list[k].sep = "" <=> k = 1
        /\ k > 1 => list[k].sep \in {",", "-"}
        /\ (k > 1 /\ list[k].sep = ",") => list[k].num > list[k - 1].num + 1
        /\ (k > 1 /\ list[k].sep = "-")
               => (list[k].num > list[k - 1].num /\ list[k - 1].sep # "-")

\* the channels the rows of the table have put into bank number b
Parsed(b) ==
    UNION {Denotes(ListOf(cv.rows[k].list)) :
               k \in {j \in 1..Len(cv.rows) : cv.rows[j].bank = b}}

\* print_bank has printed the bank of the last row of a table whose rows
\* were all accepted, each with the list "-" or a list of numbers and
\* inclusive ranges
Printed ==
    /\ cv.mode = "bank" /\ cv.out # NoPrint
    /\ \A k \in 1..Len(cv.rows) :
           \/ cv.rows[k].list = "-"
           \/ WellFormedList(ListOf(cv.rows[k].list))

\* C14: the list print_bank renders from the image parse_banks produced
\* denotes the set of channels that was parsed into the bank and has every
\* maximal run of consecutive channels compressed to N-M; the list of a
\* single row that is already in that form is rendered identically.
C14_PrintCompressed ==
    Printed
        => /\ Denotes(cv.out.list) = Parsed(cv.row.bank)
           /\ Compressed(cv.out.list)
           /\ (Len(cv.rows) = 1 /\ Compressed(ListOf(cv.row.list)))
                  => cv.out.list = ListOf(cv.row.list)

(***************************************************************************)
(* C15.  A Channel row with an unrecognized power field.                   *)
(***************************************************************************)

\* the power labels of a Channel row, which may be written in any case
PowerLabels(r) == IF r = FT60 THEN {"High", "Mid", "Low"} ELSE {"High", "Low", "-"}

\* the last row handed to parse_row is a Channel row whose power field is
\* none of these labels in any case
BadPowerRow(c) ==
    /\ c.mode = "import"
    /\ c.row.t = "C"
    /\ \A label \in PowerLabels(radio) : ~SameNoCase(label, c.row.power)

\* C15: a Channel row with an unrecognized power field (such as "Ultra") is
\* rejected and leaves the whole image unchanged, whether it is the first row
\* of the table (first_row = 1) or a later one.
C15_BadPowerKeepsImage ==
    [][(cv'.nrows = cv.nrows + 1 /\ BadPowerRow(cv'))
           => (cv'.res = 0 /\ radio_mem' = radio_mem)]_vars

\* a row with power "Ultra" was rejected after an accepted row of the table,
\* and one was rejected as the first row
C15_Witness ==
    /\ BadPowerRow(cv) /\ cv.row.power = "Ultra" /\ cv.res = 0
    /\ cv.nrows = 2 /\ cv.dirty /\ ~cv.first

C15_WitnessFirst ==
    /\ BadPowerRow(cv) /\ cv.row.power = "Ultra" /\ cv.res = 0
    /\ cv.first /\ radio_mem = TableImage(radio, "programmed")

(***************************************************************************)
(* C16.  The reset of a table region by the first accepted row.            *)
(***************************************************************************)

\* the region of the image a table kind is stored in
RegionOf(table) ==
    CASE table = "C" -> "chan" [] table = "H" -> "home"
      [] table = "V" -> "vfo" [] table = "P" -> "pms"
      [] table = "B" -> "banks"

\* every record of the region of table outside named decodes as unused;
\* a bank is unused when print_bank has no channel to list for it
RegionUnused(r, mem, table, named) ==
    IF table = "B"
    THEN \A b \in (0..(NBANKS - 1)) \ named : print_bank(r, mem, b).list = <<>>
    ELSE \A i \in (DOMAIN mem[RegionOf(table)]) \ named : \A junk \in Junk :
             decode_channel(r, mem, i, RegionOf(table), junk) = Unused

\* C16: for every table kind (Channel, Home, VFO, PMS, Bank), once a row of
\* the table was accepted, every record of the region that no accepted row
\* of the table names decodes as unused, whatever the region held before
\* the import.
C16_FirstRowResets ==
    (cv.mode = "import" /\ cv.dirty)
        => RegionUnused(radio, radio_mem, cv.table, cv.named)

(***************************************************************************)
(* C17.  Decoding a record that is marked unused.                          *)
(***************************************************************************)

\* the record decode_channel was applied to is a memory channel or PMS
\* entry marked unused: used bit clear (FT-60), VALID flag clear (VX-2)
MarkedUnused ==
    /\ cv.mode = "decode" /\ cv.step = 1
    /\ cv.seek \in {"chan", "pms"}
    /\ IF radio = FT60 THEN radio_mem[cv.seek][cv.i].used = 0
       ELSE (get_flags(radio_mem, cv.i + (IF cv.seek = "pms" THEN NCHAN ELSE 0))
                \div FLAG_VALID) % 2 = 0

\* C17: for a memory channel or PMS entry marked unused, decode_channel
\* returns 0 for every output and an empty name, whatever the record, its
\* name and its scan or flag bits hold.
C17_UnusedDecodesZero ==
    MarkedUnused
        => /\ cv.out.name = <<>>
           /\ \A f \in (DOMAIN cv.out) \ {"name"} : cv.out[f] = 0
           /\ DOMAIN cv.out = DOMAIN Unused

\* an unused FT-60 channel whose record, name and scan bits are all 0xff
\* apart from the used bit was decoded
C17_Witness ==
    /\ MarkedUnused /\ radio = FT60 /\ cv.seek = "chan"
    /\ radio_mem.chan[cv.i] = [FT60_FF EXCEPT !.used = 0]
    /\ radio_mem.names[cv.i].valid = 1
    /\ radio_mem.scan[cv.i \div 4] = 255
    /\ cv.out = Unused

\* an unused VX-2 PMS entry with the SKIP and UNMASKED flags set was decoded
C17_WitnessPms ==
    /\ MarkedUnused /\ radio = VX2 /\ cv.seek = "pms"
    /\ get_flags(radio_mem, cv.i + NCHAN) = FLAG_UNMASKED + FLAG_SKIP
    /\ cv.out = Unused

(***************************************************************************)
(* C18.  The transmit frequency decode_channel reports.                    *)
(***************************************************************************)

\* decode_channel read the record: it is not a channel or PMS entry marked
\* unused
Decoded == cv.mode = "decode" /\ cv.step = 1 /\ ~MarkedUnused

\* the receive frequency, the offset and the separately stored transmit
\* frequency of the record, in Hz
StoredRx(r, ch) ==
    IF r = FT60 THEN ft60_freq_to_hz(ch.rxfreq) ELSE vx2_freq_to_hz(ch.rxfreq)

StoredOffset(r, ch) ==
    IF r = FT60 THEN ch.offset * 50000 ELSE vx2_freq_to_hz(ch.offset)

StoredTx(r, ch) ==
    IF r = FT60 THEN ft60_freq_to_hz(ch.txfreq) ELSE vx2_freq_to_hz(ch.offset)

\* the duplex codes of the two drivers
Positive(r) == IF r = FT60 THEN FT60_D_POS_OFFSET ELSE VX2_D_POS_OFFSET

Negative(r) == IF r = FT60 THEN FT60_D_NEG_OFFSET ELSE VX2_D_NEG_OFFSET

CrossBand(r) == IF r = FT60 THEN D_CROSS_BAND ELSE D_DUPLEX

\* t = a + b for a and b from 0 on, said without a sum that may pass the
\* range of the integers at hand
IsSum(t, a, b) == t >= b /\ t - b = a

\* C18: decode_channel reports tx = rx + offset for positive duplex,
\* rx - offset for negative duplex, rx for simplex and the separately stored
\* frequency for cross-band duplex; a record with positive duplex,
\* rx = 146.520 MHz and offset = 600 kHz decodes to tx = 147.120 MHz in both
\* models.
C18_TxFromDuplex ==
    Decoded =>
        LET ch == radio_mem[cv.seek][cv.i]
            rx == StoredRx(radio, ch)
            off == StoredOffset(radio, ch)
        IN  /\ cv.out.rx_hz = rx
            /\ ch.duplex = Positive(radio) => IsSum(cv.out.tx_hz, rx, off)
            /\ ch.duplex = Negative(radio) => cv.out.tx_hz = rx - off
            /\ ch.duplex = D_SIMPLEX => cv.out.tx_hz = rx
            /\ ch.duplex = CrossBand(radio)
                   => cv.out.tx_hz = StoredTx(radio, ch)
            /\ (ch.duplex = Positive(radio) /\ rx = 146520000 /\ off = 600000)
                   => cv.out.tx_hz = 147120000

(***************************************************************************)
(* C19.  Tone and DCS indices of the records the import writes.            *)
(***************************************************************************)

\* the tone index, the DCS index and the squelch mode of a record
ToneIndex(rec) == rec.tone

DcsIndex(r, rec) == IF r = FT60 THEN rec.dtcs ELSE rec.dcs

\* the indices are rows of the tables, and the defaults when no tone is
\* selected
ValidCodes(r, rec) ==
    /\ ToneIndex(rec) \in 0..(NCTCSS - 1)
    /\ DcsIndex(r, rec) \in 0..(NDCS - 1)
    /\ rec.tmode = T_OFF => (ToneIndex(rec) = TONE_DEFAULT /\ DcsIndex(r, rec) = 0)

\* C19: after any sequence of rows, every Channel, Home and VFO record named
\* by an accepted row holds a tone index that is a row of CTCSS_TONES and a
\* DCS index that is a row of DCS_CODES; with no tone selected it holds the
\* default tone index 12 and DCS index 0.
C19_WrittenCodesValid ==
    (cv.mode = "import" /\ cv.table \in {"C", "H", "V"})
        => \A i \in cv.named : ValidCodes(radio, radio_mem[RegionOf(cv.table)][i])

\* two Channel rows were accepted on an image of 0xff bytes, one with a tone
\* and one without
C19_Witness ==
    /\ cv.mode = "import" /\ cv.table = "C" /\ cv.named = {0, 1}
    /\ radio_mem.home = TableImage(radio, "ones").home
    /\ radio_mem.chan[0].tmode = T_OFF
    /\ radio_mem.chan[1].tmode = T_TONE /\ radio_mem.chan[1].tone = 8

(***************************************************************************)
(* C20.  The round trip of a channel name through encode_name and          *)
(* decode_name.                                                            *)
(***************************************************************************)

\* a character a name may be made of: one of the model's character set, a
\* small letter, or the underscore that stands for the space
InCharset(r, c) ==
    LET u == ToUpper(IF c = "_" THEN " " ELSE c)
    IN  \E i \in 1..Len(CHARSET(r)) : CHARSET(r)[i] = u

\* the name the round trip is said to return: upper case, at most six
\* characters, underscore for the space, trailing fillers removed
FoldedName(name) ==
    StripTrailing([n \in 1..Min(6, Len(name)) |->
                      LET u == ToUpper(name[n])
                      IN  IF u = " " THEN "_" ELSE u])

\* the codes encode_name stored for the characters of the name
StoredCodes(r, stored) ==
    IF r = FT60 THEN stored.name ELSE [n \in 1..6 |-> stored[n] % 128]

\* C20: for every name made of characters of the model's character set,
\* encode_name followed by decode_name returns the name folded to upper case,
\* cut to 6 characters, with underscore for the space and without trailing
\* fillers; a character outside the set is stored as the filler code (64 on
\* FT-60, 36 on VX-2)
C20_NameRoundTrip ==
    (cv.mode = "name" /\ cv.step = 2) =>
        /\ (\A n \in 1..Len(cv.name) : InCharset(radio, cv.name[n]))
               => cv.out = FoldedName(cv.name)
        /\ \A n \in 1..Min(6, Len(cv.name)) :
               ~InCharset(radio, cv.name[n]) =>
                   StoredCodes(radio, cv.stored)[n]
                       = (IF radio = FT60 THEN OPENBOX ELSE SPACE)

(***************************************************************************)
(* C21.  Table-row operations and the end of the process.                  *)
(***************************************************************************)

\* C21: no table-row operation ends the process: parse_row and the helpers
\* it calls, setup_bank on a full bank included, report failure by their
\* return value and return to the reader.
C21_RowsNeverExit == cv.mode = "import" => pc # "exit"

(***************************************************************************)
(* C22.  The power column through export and import.                       *)
(***************************************************************************)

\* C22: every power label print_config emits for a used channel is accepted
\* by parse_channel of the same model and encodes to a power level that
\* prints as the same label.
C22_PowerLabelSurvives ==
    (cv.mode = "decode" /\ cv.step = 3)
        => /\ cv.power >= 0
           /\ POWER_NAME(radio)[cv.power + 1] = cv.label

(***************************************************************************)
(* C23.  The scan flags of FT-60 channels.                                 *)
(***************************************************************************)

\* the last row handed to parse_row is an accepted FT-60 Channel row
ChannelStored(c) ==
    /\ c.mode = "import" /\ radio = FT60
    /\ c.row.t = "C" /\ c.res = 1

\* the scan flag a scan text of the Channel table names
ScanFlag(text) ==
    CASE text = "+" -> SCAN_NORMAL
      [] text = "-" -> SCAN_SKIP
      [] text = "Only" -> SCAN_PREFERENTIAL

\* C23: on FT-60 the scan flag setup_channel stores for channel i is the
\* flag decode_channel returns for channel i, whatever the flags of the
\* three channels sharing the byte, and storing it does not change the flag
\* decoded for any other channel.
C23_ScanFlagRoundTrip ==
    /\ []((ChannelStored(cv) /\ cv.row.scan \in {"+", "-", "Only"})
            => \A junk \in Junk :
                   decode_channel(radio, radio_mem, cv.row.num - 1, "chan",
                                  junk).scan = ScanFlag(cv.row.scan))
    /\ [][(cv'.nrows = cv.nrows + 1 /\ ChannelStored(cv') /\ ~cv'.first)
              => \A i \in (0..(NCHAN - 1)) \ {cv'.row.num - 1} :
                     (radio_mem[("chan")][i].used = 1
                      /\ radio_mem'[("chan")][i].used = 1)
                         => decode_channel(radio, radio_mem', i, "chan", NoJunk).scan
                                = decode_channel(radio, radio_mem, i, "chan",
                                                 NoJunk).scan]_vars

(***************************************************************************)
(* C24.  The "Virtual Jumpers" line of VX-2.                               *)
(***************************************************************************)

\* C24: on VX-2, feeding the "Virtual Jumpers" line that print_config
\* writes for an image back through parse_parameter leaves the image
\* unchanged.
C24_JumpersRoundTrip ==
    (cv.mode = "jumper" /\ cv.step = 2 /\ cv.printed) => radio_mem = cv.before

(***************************************************************************)
(* C25.  The order of the rows of a table.                                 *)
(***************************************************************************)

\* two rows of a Channel, PMS or Bank table with distinct record numbers
\* were imported in both orders and every row was accepted
BothOrdersDone ==
    /\ cv.mode = "order" /\ cv.step = 2 /\ cv.ok
    /\ RecordsOf(radio, cv.rows[1]) \cap RecordsOf(radio, cv.rows[2]) = {}

\* C25: importing the valid rows of a Channel, PMS or Bank table in any
\* order, the first one with first_row = 1, yields the same image when the
\* rows have pairwise distinct record numbers.
C25_OrderIndependent == BothOrdersDone => radio_mem = cv.alt

\* channels 1 and 2, which share a byte of scan flags on FT-60, were
\* imported in both orders on a programmed image
C25_Witness ==
    /\ BothOrdersDone /\ cv.table = "C"
    /\ cv.rows[1].num = 1 /\ cv.rows[2].num = 2 /\ cv.rows[2].scan = "-"
    /\ radio_mem.home = TableImage(radio, "programmed").home
    /\ radio_mem = cv.alt

\* two Bank rows for different banks were imported in both orders
C25_WitnessBank ==
    /\ BothOrdersDone /\ cv.table = "B"
    /\ cv.rows[1].list = ExampleText /\ cv.rows[2].list = "1"

(***************************************************************************)
(* C26.  The chunks of a transfer attempt.                                 *)
(***************************************************************************)

\* a chunk goes over the link in this step
ChunkStep == io' # io /\ io'.op \in {"read", "write"}

\* the chunk that went last completed and ended at the checksum byte
CoveredToEnd == io.ok /\ io.start + io.nbytes = MEMSZ(radio) + 1

\* C26: in every download and upload attempt the chunks start at offset 0,
\* each following chunk starts where the completed one before it ended,
\* every chunk has at most 64 bytes and ends at or before index MEMSZ, and
\* an attempt that went through ended with the chunk that holds byte MEMSZ:
\* bytes 0..MEMSZ are covered once each.
C26_ChunksCoverImage ==
    /\ [](pc \in {"verify", "done", "uploaded"} => CoveredToEnd)
    /\ [][ChunkStep
            => /\ io'.nbytes \in 1..CHUNK
               /\ io'.start + io'.nbytes <= MEMSZ(radio) + 1
               /\ io'.start = IF io.op # "none" /\ io.ok
                              THEN io.start + io.nbytes ELSE 0]_vars

\* a VX-2 download went through on its second attempt
C26_Witness ==
    /\ radio = VX2 /\ pc = "done" /\ retries = 1
    /\ io.op = "read" /\ CoveredToEnd

(***************************************************************************)
(* C27.  Download returns once the device behaves.                         *)
(***************************************************************************)

\* the device fails in this step: a chunk comes short, an acknowledge is
\* missing or is not 0x06, or the checksum byte is not the sum of the image
DeviceFault ==
    /\ io' # io /\ io'.op = "read"
    /\ \/ ~io'.ok
       \/ /\ io'.start = MEMSZ(radio)
          /\ io'.got # <<DownloadSum(radio, radio_mem')>>

\* download goes back to "again:"
RetryStep == pc = "verify" /\ pc' = "await_first"

\* C27: if from some attempt on the device sends a complete image with a
\* correct checksum and answers every acknowledge with 0x06, download
\* eventually returns; download retries only after a checksum mismatch,
\* never after a correct transfer.
C27_DownloadReturns ==
    /\ (<>[][~DeviceFault]_vars /\ [](pc # "exit")) => <>(pc = "done")
    /\ [][RetryStep => DownloadSum(radio, radio_mem) # radio_mem[MEMSZ(radio)]]_vars
    /\ [][(pc = "verify" /\ DownloadSum(radio, radio_mem) = radio_mem[MEMSZ(radio)])
              => pc' \in {"verify", "done"}]_vars

\* an FT-60 download returned after attempts rejected for a bad checksum
C27_Witness ==
    /\ radio = FT60 /\ pc = "done" /\ retries = MaxRetries
    /\ DownloadSum(radio, radio_mem) = radio_mem[MEMSZ(radio)]

(***************************************************************************)
(* C28.  The channel count of a VX-2 bank.                                 *)
(***************************************************************************)

\* the number of occupied slots of a VX-2 bank
Occupied(mem, b) == NSLOTS - Cardinality(FreeSlots(mem, b))

\* C28: on VX-2, after a sequence of accepted Bank rows that starts with a
\* first row, the stored count word of every bank plus one (as a 16-bit
\* word, 0xffff for a bank without channels) equals the number of occupied
\* slots of the bank, also when two rows name the same bank.
C28_CountMatchesSlots ==
    (cv.mode = "bank" /\ radio = VX2 /\ cv.nrows >= 1 /\ cv.res = 1)
        => \A b \in 0..(NBANKS - 1) :
               (radio_mem.bnchan[b] + 1) % 65536 = Occupied(radio_mem, b)

(***************************************************************************)
(* C29.  A rejected Bank row and the bank data of the image.               *)
(***************************************************************************)

\* the bank membership data of an image
BankData(r, mem) ==
    IF r = FT60 THEN <<mem.banks>> ELSE <<mem.banks, mem.bnchan, mem.buse>>

\* a list that is malformed or names a channel outside 1..NCHAN
BadList(list) ==
    \E k \in 1..Len(list) :
        \/ list[k].num < 1 \/ list[k].num > NCHAN
        \/ k > 1 /\ list[k].sep \notin {",", "-"}

\* C29: a Bank row that parse_banks rejects because its list is malformed or
\* names a channel outside 1..NCHAN leaves the bank membership data of the
\* image unchanged, as first row of the table and as a later row.
C29_RejectedBankRowKeepsBanks ==
    [][(/\ cv'.mode = "import" /\ cv'.nrows = cv.nrows + 1
        /\ cv'.row.t = "B" /\ cv'.row.bank \in 1..NBANKS
        /\ BadList(ListOf(cv'.row.list)) /\ cv'.res = 0)
           => BankData(radio, radio_mem') = BankData(radio, radio_mem)]_vars

(***************************************************************************)
(* C30.  The offset byte of an FT-60 channel.                              *)
(***************************************************************************)

\* distance of two frequencies
Distance(a, b) == IF a >= b THEN a - b ELSE b - a

\* C30: on FT-60, for every transmit offset of magnitude above 0 and below
\* 12.8 MHz, setup_channel stores an offset byte in 1..255 and
\* decode_channel reports a transmit frequency within 25 kHz of the
\* requested one.
C30_OffsetByteInRange ==
    (/\ cv.mode = "offset" /\ cv.step = 2
     /\ Distance(cv.tx_hz, cv.rx_hz) > 0
     /\ Distance(cv.tx_hz, cv.rx_hz) < 12800000)
        => /\ radio_mem[("chan")][0].offset \in 1..255
           /\ Distance(cv.out.tx_hz, cv.tx_hz) <= 25000

====
